---- MODULE Spec2Model ----
(***************************************************************************)
(* Model of the deterministic confidence scorer of VoLoDDR                 *)
(* (ConfidenceScorer, SOURCE_CREDIBILITY, add_confidence_scores) and of    *)
(* get_stars of ddr_engine.                                                *)
(*                                                                         *)
(* Python floats are IEEE-754 binary64.  The scorer adds, multiplies and   *)
(* divides them, so the model carries a binary64 arithmetic: a float is a  *)
(* sign, a 53-bit significand and an exponent, and every operation rounds  *)
(* to nearest, ties to even.  TLC's integers are 32 bits wide, so the      *)
(* significands are kept as little-endian sequences of 15-bit limbs.       *)
(* Exponents stay between -80 and 10 for every value the scorer can form,  *)
(* so subnormals, infinities and NaN never arise and are not modelled.     *)
(***************************************************************************)
EXTENDS Integers, Sequences, FiniteSets, TLC

\* ------------------------------------------------------------------------
\* Natural numbers of any width: little-endian limb sequences, no leading
\* zero limb; <<>> is 0.
\* ------------------------------------------------------------------------
Pow2(k) == 2 ^ k

LimbBits == 15
LimbBase == Pow2(LimbBits)

RECURSIVE BNorm(_)
BNorm(a) ==
    IF a = <<>> THEN <<>>
    ELSE IF a[Len(a)] = 0 THEN BNorm(SubSeq(a, 1, Len(a) - 1))
    ELSE a

RECURSIVE BFromNat(_)
BFromNat(n) ==
    IF n = 0 THEN <<>> ELSE <<n % LimbBase>> \o BFromNat(n \div LimbBase)

BLimb(a, i) == IF i <= Len(a) THEN a[i] ELSE 0

RECURSIVE BAddFrom(_, _, _, _)
BAddFrom(a, b, i, carry) ==
    IF i > Len(a) /\ i > Len(b)
    THEN (IF carry = 0 THEN <<>> ELSE <<carry>>)
    ELSE LET v == BLimb(a, i) + BLimb(b, i) + carry
         IN  <<v % LimbBase>> \o BAddFrom(a, b, i + 1, v \div LimbBase)

BAdd(a, b) == BAddFrom(a, b, 1, 0)

\* a - b for a >= b
RECURSIVE BSubFrom(_, _, _, _)
BSubFrom(a, b, i, borrow) ==
    IF i > Len(a) THEN <<>>
    ELSE LET v == a[i] - BLimb(b, i) - borrow
         IN  IF v < 0
             THEN <<v + LimbBase>> \o BSubFrom(a, b, i + 1, 1)
             ELSE <<v>> \o BSubFrom(a, b, i + 1, 0)

BSub(a, b) == BNorm(BSubFrom(a, b, 1, 0))

\* -1, 0, 1 as a < b, a = b, a > b
RECURSIVE BCmpFrom(_, _, _)
BCmpFrom(a, b, i) ==
    IF i = 0 THEN 0
    ELSE IF a[i] < b[i] THEN -1
    ELSE IF a[i] > b[i] THEN 1
    ELSE BCmpFrom(a, b, i - 1)

BCmp(a, b) ==
    IF Len(a) < Len(b) THEN -1
    ELSE IF Len(a) > Len(b) THEN 1
    ELSE BCmpFrom(a, b, Len(a))

\* a * k for 0 <= k < LimbBase
RECURSIVE BMulSmallFrom(_, _, _, _)
BMulSmallFrom(a, k, i, carry) ==
    IF i > Len(a)
    THEN (IF carry = 0 THEN <<>> ELSE <<carry>>)
    ELSE LET v == a[i] * k + carry
         IN  <<v % LimbBase>> \o BMulSmallFrom(a, k, i + 1, v \div LimbBase)

BMulSmall(a, k) == IF k = 0 THEN <<>> ELSE BMulSmallFrom(a, k, 1, 0)

BZeros(w) == [i \in 1..w |-> 0]

RECURSIVE BMulFrom(_, _, _)
BMulFrom(a, b, i) ==
    IF i > Len(b) THEN <<>>
    ELSE LET part == BMulSmall(a, b[i])
             term == IF part = <<>> THEN <<>> ELSE BZeros(i - 1) \o part
         IN  BAdd(term, BMulFrom(a, b, i + 1))

BMul(a, b) == IF a = <<>> \/ b = <<>> THEN <<>> ELSE BMulFrom(a, b, 1)

\* floor(a / n) and a mod n for 0 < n < LimbBase; the quotient's limbs are
\* produced from the top limb down.
RECURSIVE BDivSmallFrom(_, _, _, _)
BDivSmallFrom(a, n, i, rem) ==
    IF i = 0 THEN [q |-> <<>>, r |-> rem]
    ELSE LET cur  == rem * LimbBase + a[i]
             rest == BDivSmallFrom(a, n, i - 1, cur % n)
         IN  [q |-> rest.q \o <<cur \div n>>, r |-> rest.r]

BDivNorm(d) == [q |-> BNorm(d.q), r |-> d.r]

BDivSmall(a, n) == BDivNorm(BDivSmallFrom(a, n, Len(a), 0))

BShl(a, k) ==
    IF a = <<>> \/ k = 0 THEN a
    ELSE IF k % LimbBits = 0 THEN BZeros(k \div LimbBits) \o a
    ELSE BZeros(k \div LimbBits) \o BMulSmall(a, Pow2(k % LimbBits))

\* The quotient d.q of the limbs above the w lowest, and whether anything
\* was shifted out: a remainder d.r, or a bit of the w lowest limbs.
BShrParts(a, w, d) ==
    [q |-> d.q, sticky |-> d.r # 0 \/ \E i \in 1..w : a[i] # 0]

\* floor(a / 2^k), and whether a mod 2^k is not 0
BShrSticky(a, k) ==
    IF k = 0 THEN [q |-> a, sticky |-> FALSE]
    ELSE IF k \div LimbBits >= Len(a) THEN [q |-> <<>>, sticky |-> a # <<>>]
    ELSE BShrParts(a, k \div LimbBits,
                   BDivSmall(SubSeq(a, k \div LimbBits + 1, Len(a)),
                             Pow2(k % LimbBits)))

BShr(a, k) == BShrSticky(a, k).q

RECURSIVE BitsOf(_)
BitsOf(x) == IF x = 0 THEN 0 ELSE 1 + BitsOf(x \div 2)

BBitLen(a) ==
    IF a = <<>> THEN 0 ELSE LimbBits * (Len(a) - 1) + BitsOf(a[Len(a)])

BOdd(a) == a # <<>> /\ a[1] % 2 = 1

\* ------------------------------------------------------------------------
\* IEEE-754 binary64, round to nearest, ties to even.
\* A float is [neg, m, e] with value (-1)^neg * m * 2^e, where m is a
\* natural of exactly 53 bits, or m = <<>>, e = 0 for zero.  The form is
\* canonical: equal floats are equal records.
\* ------------------------------------------------------------------------
MantBits == 52 + 1

FZero == [neg |-> FALSE, m |-> <<>>, e |-> 0]

\* The significand q2 = q + 1 of a float rounded up: 2^53 is renormalised.
FRoundCarry(neg, q2, e) ==
    IF BBitLen(q2) > MantBits
    THEN [neg |-> neg, m |-> BShr(q2, 1), e |-> e + 1]
    ELSE [neg |-> neg, m |-> q2, e |-> e]

\* q holds the 53 bits kept; half is the first bit dropped, low says that
\* something below it is not zero.  Up when above the middle, or in the
\* middle with q odd.
FRoundUp(neg, q, e, half, low) ==
    IF half /\ (low \/ BOdd(q))
    THEN FRoundCarry(neg, BAdd(q, <<1>>), e)
    ELSE [neg |-> neg, m |-> q, e |-> e]

\* t.q holds the 54 highest bits, t.sticky says that a lower bit was set.
FRoundCut(neg, t, e, sticky) ==
    FRoundUp(neg, BShr(t.q, 1), e, BOdd(t.q), sticky \/ t.sticky)

\* n has L bits.
FRoundLen(neg, n, e, sticky, L) ==
    IF L = 0 THEN FZero
    ELSE IF L <= MantBits
    THEN [neg |-> neg, m |-> BShl(n, MantBits - L), e |-> e - (MantBits - L)]
    ELSE FRoundCut(neg, BShrSticky(n, L - MantBits - 1), e + (L - MantBits),
                   sticky)

\* The float nearest to (-1)^neg * n * 2^e; sticky says that the exact value
\* lies strictly above n * 2^e (and below (n + 1) * 2^e) in magnitude.
FRoundSticky(neg, n, e, sticky) == FRoundLen(neg, n, e, sticky, BBitLen(n))

FRound(neg, n, e) == FRoundSticky(neg, n, e, FALSE)

FNeg(a) == IF a = FZero THEN FZero ELSE [a EXCEPT !.neg = ~a.neg]

\* The sum of (-1)^na * A * 2^lo and (-1)^nb * B * 2^lo, where c compares A
\* with B; x + (-x) is 0.0.
FAddMant(na, nb, A, B, lo, c) ==
    FRound(IF c >= 0 THEN na ELSE nb,
           IF na = nb THEN BAdd(A, B)
           ELSE IF c >= 0 THEN BSub(A, B)
           ELSE BSub(B, A),
           lo)

FAddAligned(na, nb, A, B, lo) == FAddMant(na, nb, A, B, lo, BCmp(A, B))

FAddAt(a, b, lo) ==
    FAddAligned(a.neg, b.neg, BShl(a.m, a.e - lo), BShl(b.m, b.e - lo), lo)

\* a + b
FAdd(a, b) ==
    IF a = FZero THEN b
    ELSE IF b = FZero THEN a
    ELSE FAddAt(a, b, IF a.e < b.e THEN a.e ELSE b.e)

\* a - b
FSub(a, b) == FAdd(a, FNeg(b))

\* a * b
FMul(a, b) ==
    IF a = FZero \/ b = FZero THEN FZero
    ELSE FRound(a.neg # b.neg, BMul(a.m, b.m), a.e + b.e)

\* The float nearest to a quotient d.q * 2^e with remainder d.r.
FRoundQuotient(neg, d, e) == FRoundSticky(neg, d.q, e, d.r # 0)

\* a / n for an int 0 < n < 2^15: Python converts the int to a float (exactly)
\* and divides; the quotient is the float nearest to the real quotient.
FDivInt(a, n) ==
    IF a = FZero THEN FZero
    ELSE FRoundQuotient(a.neg, BDivSmall(BShl(a.m, 2 * LimbBits), n),
                        a.e - 2 * LimbBits)

\* -1, 0, 1 as a < b, a = b, a > b
FCmpMag(a, b) ==
    IF a = FZero THEN (IF b = FZero THEN 0 ELSE -1)
    ELSE IF b = FZero THEN 1
    ELSE IF a.e < b.e THEN -1
    ELSE IF a.e > b.e THEN 1
    ELSE BCmp(a.m, b.m)

FCmp(a, b) ==
    IF a.neg /\ ~b.neg THEN -1
    ELSE IF ~a.neg /\ b.neg THEN 1
    ELSE IF a.neg THEN FCmpMag(b, a)
    ELSE FCmpMag(a, b)

FGe(a, b) == FCmp(a, b) >= 0
FLe(a, b) == FCmp(a, b) <= 0
FLt(a, b) == FCmp(a, b) < 0
FAbs(a) == [a EXCEPT !.neg = FALSE]

\* The float a decimal literal num/den denotes: the float nearest to it
\* (0 <= num < 2^30, 0 < den < 2^15).
Lit(num, den) ==
    FRoundQuotient(FALSE, BDivSmall(BShl(BFromNat(num), 5 * LimbBits), den),
                   -(5 * LimbBits))

\* ------------------------------------------------------------------------
\* Strings are sequences of one-character strings, so that lower() and the
\* "in" containment test are computed, not assumed.
\* ------------------------------------------------------------------------
UpperCase == <<"A", "B", "C", "D", "E", "F", "G", "H", "I", "J", "K", "L", "M", "N", "O", "P", "Q", "R", "S", "T", "U", "V", "W", "X", "Y", "Z">>
LowerCase == <<"a", "b", "c", "d", "e", "f", "g", "h", "i", "j", "k", "l", "m", "n", "o", "p", "q", "r", "s", "t", "u", "v", "w", "x", "y", "z">>

lower_char(c) ==
    IF \E i \in 1..Len(UpperCase) : UpperCase[i] = c
    THEN LowerCase[CHOOSE i \in 1..Len(UpperCase) : UpperCase[i] = c]
    ELSE c

\* str.lower() on ASCII text
lower(s) == [i \in 1..Len(s) |-> lower_char(s[i])]

\* Python's  sub in s  for strings
contains(s, sub) ==
    \E i \in 0..(Len(s) - Len(sub)) : SubSeq(s, i + 1, i + Len(sub)) = sub

\* The module-level dict, in its definition (and so iteration) order.
SOURCE_CREDIBILITY ==
    << [key |-> <<"b", "l", "o", "o", "m", "b", "e", "r", "g">>, score |-> Lit(95, 100)],
       [key |-> <<"r", "e", "u", "t", "e", "r", "s">>, score |-> Lit(90, 100)],
       [key |-> <<"i", "e", "a">>, score |-> Lit(95, 100)],
       [key |-> <<"b", "a", "i", "n">>, score |-> Lit(85, 100)],
       [key |-> <<"m", "c", "k", "i", "n", "s", "e", "y">>, score |-> Lit(85, 100)],
       [key |-> <<"b", "c", "g">>, score |-> Lit(85, 100)],
       [key |-> <<"s", "e", "c">>, score |-> Lit(95, 100)],
       [key |-> <<"c", "r", "u", "n", "c", "h", "b", "a", "s", "e">>, score |-> Lit(85, 100)],
       [key |-> <<"p", "i", "t", "c", "h", "b", "o", "o", "k">>, score |-> Lit(90, 100)],
       [key |-> <<"c", "b", "i", "n", "s", "i", "g", "h", "t", "s">>, score |-> Lit(85, 100)],
       [key |-> <<"c", "o", "u", "r", "t", "_", "r", "e", "c", "o", "r", "d", "s">>, score |-> Lit(95, 100)],
       [key |-> <<"g", "o", "v", "e", "r", "n", "m", "e", "n", "t">>, score |-> Lit(85, 100)],
       [key |-> <<"i", "n", "d", "u", "s", "t", "r", "y", "_", "r", "e", "p", "o", "r", "t">>, score |-> Lit(75, 100)],
       [key |-> <<"u", "n", "k", "n", "o", "w", "n">>, score |-> Lit(20, 100)] >>

\* Source labels the callers are drawn from.
SeeBloombergTerminalData == <<"S", "e", "e", " ", "B", "l", "o", "o", "m", "b", "e", "r", "g", " ", "T", "e", "r", "m", "i", "n", "a", "l", " ", "d", "a", "t", "a">>
SomeLocalBlog == <<"s", "o", "m", "e", " ", "l", "o", "c", "a", "l", " ", "b", "l", "o", "g">>
Reuters == <<"R", "e", "u", "t", "e", "r", "s">>
Bloomberg == <<"B", "l", "o", "o", "m", "b", "e", "r", "g">>
SEC == <<"S", "E", "C">>
Crunchbase == <<"C", "r", "u", "n", "c", "h", "b", "a", "s", "e">>
PitchBook == <<"P", "i", "t", "c", "h", "B", "o", "o", "k">>
UnknownBlog == <<"u", "n", "k", "n", "o", "w", "n", "_", "b", "l", "o", "g">>
ReutersAndSec == <<"R", "e", "u", "t", "e", "r", "s", " ", "a", "n", "d", " ", "S", "E", "C", " ", "f", "i", "l", "i", "n", "g", "s">>
IndustryReport == <<"i", "n", "d", "u", "s", "t", "r", "y", "_", "r", "e", "p", "o", "r", "t", " ", "2", "0", "2", "4">>
BainStudy == <<"B", "a", "i", "n", " ", "s", "t", "u", "d", "y">>

\* ------------------------------------------------------------------------
\* State
\* ------------------------------------------------------------------------
VARIABLES
    py_sum,            \* the interpreter's builtin sum(): "naive" (CPython up to
                       \* 3.11, a running float total) or "compensated" (CPython
                       \* 3.12 on, Neumaier summation)
    table,             \* the module global SOURCE_CREDIBILITY
    op,                \* the entry point this run calls
    sources,           \* score_claim's arguments
    data_age_months,
    sources_agree,
    has_numbers,
    ret,               \* what the latest score_claim(sources, ...) returned
    first_ret,         \* what the first score_claim(sources, ...) returned
    calls,             \* the score_claim calls made so far: "same" for a call
                       \* with the arguments above, "other" for any other
    arg_confidence,    \* get_stars' argument, when it is called on its own
    stars,             \* what ConfidenceScorer.get_stars returned
    stars_engine,      \* what ddr_engine.get_stars returned
    arg_source,        \* _get_credibility's argument, when called on its own
    cred,              \* what _get_credibility returned
    analysis,          \* add_confidence_scores' argument, updated in place
    raised,            \* the exception a call ended with, or "none"
    frames,            \* the frames of the calls that run concurrently: the
                       \* arguments and local variables of each
    agent,             \* the frame of _agentic_call: its arguments, locals and
                       \* position, and the requests it has sent
    raw_text           \* _extract_json's argument

vars == <<py_sum, table, op, sources, data_age_months, sources_agree,
          has_numbers, ret, first_ret, calls, arg_confidence, stars,
          stars_engine, arg_source, cred, analysis, raised, frames, agent,
          raw_text>>

scorer_args == <<sources, data_age_months, sources_agree, has_numbers>>

None == [none |-> TRUE]

\* ------------------------------------------------------------------------
\* ConfidenceScorer
\* ------------------------------------------------------------------------
\* The float literals of score_claim and get_stars.
BASE_CONFIDENCE == Lit(3, 10)
BONUS_5_SOURCES == Lit(25, 100)
BONUS_3_SOURCES == Lit(15, 100)
BONUS_2_SOURCES == Lit(8, 100)
BONUS_1_SOURCE  == Lit(3, 100)
CRED_FACTOR     == Lit(30, 100)
BONUS_AGE_6     == Lit(15, 100)
BONUS_AGE_12    == Lit(8, 100)
BONUS_AGREE     == Lit(15, 100)
BONUS_NUMBERS   == Lit(10, 100)
CEILING         == Lit(1, 1)
STARS_5_MIN     == Lit(85, 100)
STARS_4_MIN     == Lit(70, 100)
STARS_3_MIN     == Lit(50, 100)
STARS_2_MIN     == Lit(30, 100)

RECURSIVE first_match(_, _, _)
first_match(tab, source_lower, i) ==
    IF i > Len(tab) THEN 0
    ELSE IF contains(source_lower, tab[i].key) THEN i
    ELSE first_match(tab, source_lower, i + 1)

\* SOURCE_CREDIBILITY['unknown']
unknown_score(tab) ==
    tab[CHOOSE i \in 1..Len(tab) : tab[i].key = <<"u", "n", "k", "n", "o", "w", "n">>].score

\* Mutant of _get_credibility: the last matching key of the table wins.
_get_credibility_last(source) ==
    LET source_lower == lower(source)
        hits == {i \in 1..Len(table) : contains(source_lower, table[i].key)}
    IN  IF hits # {}
        THEN table[CHOOSE i \in hits : \A j \in hits : j <= i].score
        ELSE unknown_score(table)

\* Mutant of _get_credibility: a key matches only a source equal to it.
_get_credibility_equal(source) ==
    LET source_lower == lower(source)
        hits == {i \in 1..Len(table) : table[i].key = source_lower}
    IN  IF hits # {} THEN table[CHOOSE i \in hits : TRUE].score
        ELSE unknown_score(table)

_get_credibility(source) ==
    LET source_lower == lower(source)
        i == first_match(table, source_lower, 1)
    IN  IF i > 0 THEN table[i].score ELSE unknown_score(table)

\* sum() of floats, CPython <= 3.11: the items are added to a running total
\* left to right; the first addition, to the int 0, is exact.
RECURSIVE naive_sum(_, _, _)
naive_sum(xs, i, total) ==
    IF i > Len(xs) THEN total ELSE naive_sum(xs, i + 1, FAdd(total, xs[i]))

\* sum() of floats, CPython >= 3.12: Neumaier's compensated summation.
RECURSIVE compensated_sum(_, _, _, _)
RECURSIVE compensated_step(_, _, _, _, _)
compensated_sum(xs, i, f_result, c) ==
    IF i > Len(xs)
    THEN (IF c # FZero THEN FAdd(f_result, c) ELSE f_result)
    ELSE compensated_step(xs, i, f_result, c, FAdd(f_result, xs[i]))

\* One round of the loop, with t = f_result + x.
compensated_step(xs, i, f_result, c, t) ==
    compensated_sum(xs, i + 1, t,
                    FAdd(c, IF FGe(FAbs(f_result), FAbs(xs[i]))
                            THEN FAdd(FSub(f_result, t), xs[i])
                            ELSE FAdd(FSub(xs[i], t), f_result)))

builtin_sum(xs) ==
    IF py_sum = "naive" THEN naive_sum(xs, 1, FZero)
    ELSE compensated_sum(xs, 2, xs[1], FZero)

\* Mutant of min_ceiling: the ceiling is left out.
min_ceiling_missing(confidence) == confidence

\* min(1.0, confidence)
min_ceiling(confidence) ==
    IF FLt(confidence, CEILING) THEN confidence ELSE CEILING

\* Mutant of volume_bonus: the tiers stack (if, not elif).
volume_bonus_stacked(confidence, n) ==
    IF n >= 5
    THEN FAdd(FAdd(confidence, BONUS_5_SOURCES), BONUS_3_SOURCES)
    ELSE IF n >= 3 THEN FAdd(confidence, BONUS_3_SOURCES)
    ELSE IF n = 2 THEN FAdd(confidence, BONUS_2_SOURCES)
    ELSE IF n = 1 THEN FAdd(confidence, BONUS_1_SOURCE)
    ELSE confidence

\* Mutant of volume_bonus: the bonuses of one and of two sources are swapped.
volume_bonus_swapped(confidence, n) ==
    IF n >= 5 THEN FAdd(confidence, BONUS_5_SOURCES)
    ELSE IF n >= 3 THEN FAdd(confidence, BONUS_3_SOURCES)
    ELSE IF n = 2 THEN FAdd(confidence, BONUS_1_SOURCE)
    ELSE IF n = 1 THEN FAdd(confidence, BONUS_2_SOURCES)
    ELSE confidence

volume_bonus(confidence, n) ==
    IF n >= 5 THEN FAdd(confidence, BONUS_5_SOURCES)
    ELSE IF n >= 3 THEN FAdd(confidence, BONUS_3_SOURCES)
    ELSE IF n = 2 THEN FAdd(confidence, BONUS_2_SOURCES)
    ELSE IF n = 1 THEN FAdd(confidence, BONUS_1_SOURCE)
    ELSE confidence

\* Mutant of credibility_bonus: an empty list is given the weight of an
\* unknown source.
credibility_bonus_default(confidence, srcs) ==
    IF srcs # <<>>
    THEN LET creds == [i \in 1..Len(srcs) |-> _get_credibility(srcs[i])]
         IN  FAdd(confidence,
                  FMul(FDivInt(builtin_sum(creds), Len(creds)), CRED_FACTOR))
    ELSE FAdd(confidence, FMul(unknown_score(table), CRED_FACTOR))

\* Mutant of credibility_bonus: the weights are summed, not averaged.
credibility_bonus_total(confidence, srcs) ==
    IF srcs # <<>>
    THEN LET creds == [i \in 1..Len(srcs) |-> _get_credibility(srcs[i])]
         IN  FAdd(confidence, FMul(builtin_sum(creds), CRED_FACTOR))
    ELSE confidence

\* avg_cred = sum(creds) / len(sources); confidence += avg_cred * 0.30
add_avg_cred(confidence, creds) ==
    FAdd(confidence,
         FMul(FDivInt(builtin_sum(creds), Len(creds)), CRED_FACTOR))

\* Mutant of credibility_bonus: the weight of the first source is taken for
\* the mean.
credibility_bonus_first(confidence, srcs) ==
    IF srcs # <<>>
    THEN FAdd(confidence, FMul(_get_credibility(srcs[1]), CRED_FACTOR))
    ELSE confidence

credibility_bonus(confidence, srcs) ==
    IF srcs # <<>>
    THEN add_avg_cred(confidence,
                      [i \in 1..Len(srcs) |-> _get_credibility(srcs[i])])
    ELSE confidence

\* Mutant of recency_bonus: the second tier reaches one month too far.
recency_bonus_late(confidence, age) ==
    IF age <= 6 THEN FAdd(confidence, BONUS_AGE_6)
    ELSE IF age <= 12 + 1 THEN FAdd(confidence, BONUS_AGE_12)
    ELSE confidence

\* Mutant of recency_bonus: the two tiers are swapped.
recency_bonus_swapped(confidence, age) ==
    IF age <= 6 THEN FAdd(confidence, BONUS_AGE_12)
    ELSE IF age <= 12 THEN FAdd(confidence, BONUS_AGE_6)
    ELSE confidence

recency_bonus(confidence, age) ==
    IF age <= 6 THEN FAdd(confidence, BONUS_AGE_6)
    ELSE IF age <= 12 THEN FAdd(confidence, BONUS_AGE_12)
    ELSE confidence

\* Mutant of agree_bonus: the bonus of has_numbers is added instead.
agree_bonus_wrong(confidence, agree) ==
    IF agree THEN FAdd(confidence, BONUS_NUMBERS) ELSE confidence

agree_bonus(confidence, agree) ==
    IF agree THEN FAdd(confidence, BONUS_AGREE) ELSE confidence

numbers_bonus(confidence, numbers) ==
    IF numbers THEN FAdd(confidence, BONUS_NUMBERS) ELSE confidence

\* The sum before the ceiling is applied.
raw_confidence(srcs, age, agree, numbers) ==
    numbers_bonus(
        agree_bonus(
            recency_bonus(
                credibility_bonus(volume_bonus(BASE_CONFIDENCE, Len(srcs)), srcs),
                age),
            agree),
        numbers)

\* The entries of srcs from position i on that no earlier entry repeats.
RECURSIVE DistinctFrom(_, _)
DistinctFrom(srcs, i) ==
    IF i > Len(srcs) THEN <<>>
    ELSE IF \E j \in 1..(i - 1) : srcs[j] = srcs[i]
         THEN DistinctFrom(srcs, i + 1)
         ELSE <<srcs[i]>> \o DistinctFrom(srcs, i + 1)

\* Mutant of score_claim: repeated labels are counted once.
score_claim_distinct(srcs, age, agree, numbers) ==
    min_ceiling(raw_confidence(DistinctFrom(srcs, 1), age, agree, numbers))

\* Mutant of score_claim: the data ages by six months with every call made
\* before.
score_claim_aging(srcs, age, agree, numbers) ==
    min_ceiling(raw_confidence(srcs, age + 6 * Len(calls), agree, numbers))

score_claim(srcs, age, agree, numbers) ==
    min_ceiling(raw_confidence(srcs, age, agree, numbers))

\* Mutant of score_claim_default_age: the default age is 0 months.
score_claim_default_fresh(srcs, agree, numbers) ==
    score_claim(srcs, 0, agree, numbers)

\* score_claim(sources, sources_agree=..., has_numbers=...): the call that
\* leaves data_age_months to its default, "data_age_months: int = 999".
score_claim_default_age(srcs, agree, numbers) ==
    score_claim(srcs, 999, agree, numbers)

\* The star labels; each "*" stands for one U+2B50 character.
STAR == "*"
NoStars == <<>>
LABEL_5 == <<STAR, STAR, STAR, STAR, STAR>>
LABEL_4 == <<STAR, STAR, STAR, STAR>>
LABEL_3 == <<STAR, STAR, STAR>>
LABEL_2 == <<STAR, STAR>>
LABEL_1 == <<STAR>>

\* Mutant of get_stars: the labels of the middle bands are swapped.
get_stars_swapped(confidence) ==
    IF FGe(confidence, STARS_5_MIN) THEN LABEL_5
    ELSE IF FGe(confidence, STARS_4_MIN) THEN LABEL_3
    ELSE IF FGe(confidence, STARS_3_MIN) THEN LABEL_4
    ELSE IF FGe(confidence, STARS_2_MIN) THEN LABEL_2
    ELSE LABEL_1

\* Mutant of get_stars: the five-star bound is exclusive.
get_stars_exclusive(confidence) ==
    IF FLt(STARS_5_MIN, confidence) THEN LABEL_5
    ELSE IF FGe(confidence, STARS_4_MIN) THEN LABEL_4
    ELSE IF FGe(confidence, STARS_3_MIN) THEN LABEL_3
    ELSE IF FGe(confidence, STARS_2_MIN) THEN LABEL_2
    ELSE LABEL_1

\* Mutant of get_stars: a score has to exceed 0.30 to get two stars.
get_stars_above_floor(confidence) ==
    IF FGe(confidence, STARS_5_MIN) THEN LABEL_5
    ELSE IF FGe(confidence, STARS_4_MIN) THEN LABEL_4
    ELSE IF FGe(confidence, STARS_3_MIN) THEN LABEL_3
    ELSE IF FLt(STARS_2_MIN, confidence) THEN LABEL_2
    ELSE LABEL_1

\* ConfidenceScorer.get_stars
get_stars(confidence) ==
    IF FGe(confidence, STARS_5_MIN) THEN LABEL_5
    ELSE IF FGe(confidence, STARS_4_MIN) THEN LABEL_4
    ELSE IF FGe(confidence, STARS_3_MIN) THEN LABEL_3
    ELSE IF FGe(confidence, STARS_2_MIN) THEN LABEL_2
    ELSE LABEL_1

\* Mutant of ddr_engine_get_stars: the two-star bound is exclusive.
ddr_engine_get_stars_exclusive(confidence) ==
    IF FGe(confidence, STARS_5_MIN) THEN LABEL_5
    ELSE IF FGe(confidence, STARS_4_MIN) THEN LABEL_4
    ELSE IF FGe(confidence, STARS_3_MIN) THEN LABEL_3
    ELSE IF FLt(STARS_2_MIN, confidence) THEN LABEL_2
    ELSE LABEL_1

\* ddr_engine.get_stars
ddr_engine_get_stars(confidence) ==
    IF FGe(confidence, STARS_5_MIN) THEN LABEL_5
    ELSE IF FGe(confidence, STARS_4_MIN) THEN LABEL_4
    ELSE IF FGe(confidence, STARS_3_MIN) THEN LABEL_3
    ELSE IF FGe(confidence, STARS_2_MIN) THEN LABEL_2
    ELSE LABEL_1

\* ------------------------------------------------------------------------
\* Calls of score_claim followed by get_stars: the arguments are drawn in
\* the initial state, ScoreClaim runs the call, GetStars rates its result.
\* ------------------------------------------------------------------------
MaxSources == 7
MaxMixed == 2

\* One label for each weight of the table, and one no key matches.
UniformPool == {Bloomberg, Reuters, BainStudy, IndustryReport, SomeLocalBlog}
MixedPool == {SeeBloombergTerminalData, Reuters, SomeLocalBlog}

Repeat(s, n) == [i \in 1..n |-> s]

SeqsUpTo(S, n) == UNION {[1..k -> S] : k \in 0..n}

ScenarioLists ==
    { <<Bloomberg, Reuters, SEC, Crunchbase, PitchBook>>,
      <<UnknownBlog>>,
      <<ReutersAndSec>>,
      <<SomeLocalBlog, Reuters, SeeBloombergTerminalData>>,
      <<Reuters, SeeBloombergTerminalData, SomeLocalBlog>>,
      <<Reuters, Reuters, SomeLocalBlog>> }

SourceLists ==
    SeqsUpTo(MixedPool, MaxMixed)
        \cup {Repeat(s, n) : s \in UniformPool, n \in 0..MaxSources}
        \cup ScenarioLists

Ages == {-1, 3, 6, 7, 9, 12, 13, 24, 999}

\* The ages of the documented scenarios that are not in Ages.
ScenarioAges == {2}

PySums == {"naive", "compensated"}

ScoreInputs ==
    [sources : SourceLists, data_age_months : Ages,
     sources_agree : BOOLEAN, has_numbers : BOOLEAN]
        \cup [sources : ScenarioLists, data_age_months : ScenarioAges,
              sources_agree : BOOLEAN, has_numbers : BOOLEAN]

\* The variables of the entry points a run does not call.
NoScoreCall ==
    /\ sources = <<>>
    /\ data_age_months = 999
    /\ sources_agree = FALSE
    /\ has_numbers = FALSE
    /\ ret = None
    /\ first_ret = None
    /\ calls = <<>>

NoStarsCall == arg_confidence = None /\ stars_engine = NoStars

NoCredibilityCall == arg_source = <<>> /\ cred = None

NoAssembly == analysis = None /\ raised = "none"

NoThreads == frames = <<>>

NoAgent == agent = None

NoExtract == raw_text = None

InitScore ==
    /\ py_sum \in PySums
    /\ table = SOURCE_CREDIBILITY
    /\ NoThreads
    /\ NoAgent
    /\ NoExtract
    /\ op = "score_claim"
    /\ \E i \in ScoreInputs :
          /\ sources = i.sources
          /\ data_age_months = i.data_age_months
          /\ sources_agree = i.sources_agree
          /\ has_numbers = i.has_numbers
    /\ ret = None
    /\ first_ret = None
    /\ calls = <<>>
    /\ stars = NoStars
    /\ NoStarsCall
    /\ NoCredibilityCall
    /\ NoAssembly

\* conf = ConfidenceScorer.score_claim(sources, data_age_months, ...)
ScoreClaim ==
    /\ op = "score_claim"
    /\ ret = None
    /\ ret' = score_claim(sources, data_age_months, sources_agree, has_numbers)
    /\ first_ret' = ret'
    /\ calls' = Append(calls, "same")
    /\ UNCHANGED <<py_sum, table, op, scorer_args, arg_confidence, stars,
                   stars_engine, arg_source, cred, analysis, raised, frames,
                   agent, raw_text>>

\* ConfidenceScorer.get_stars(conf)
GetStars ==
    /\ op = "score_claim"
    /\ ret # None
    /\ stars = NoStars
    /\ stars' = get_stars(ret)
    /\ UNCHANGED <<py_sum, table, op, scorer_args, ret, first_ret, calls,
                   arg_confidence, stars_engine, arg_source, cred, analysis,
                   raised, frames,
                   agent, raw_text>>

NextScore == ScoreClaim \/ GetStars

SpecScore == InitScore /\ [][NextScore]_vars

\* ------------------------------------------------------------------------
\* Calls of the two get_stars on a confidence of their own: the confidence
\* is drawn in the initial state from a grid over [0, 1], the four bounds of
\* the bands and the floats next to them.
\* ------------------------------------------------------------------------
GridSteps == 100

\* The next float above and the next float below a positive float.
NextUp(x) == FRound(FALSE, BAdd(x.m, <<1>>), x.e)

NextDown(x) ==
    IF BBitLen(BSub(x.m, <<1>>)) = MantBits
    THEN [neg |-> FALSE, m |-> BSub(x.m, <<1>>), e |-> x.e]
    ELSE [neg |-> FALSE, m |-> BSub(BShl(x.m, 1), <<1>>), e |-> x.e - 1]

Thresholds == {STARS_5_MIN, STARS_4_MIN, STARS_3_MIN, STARS_2_MIN}

Confidences ==
    {Lit(k, GridSteps) : k \in 0..GridSteps}
        \cup Thresholds
        \cup {NextUp(t) : t \in Thresholds}
        \cup {NextDown(t) : t \in Thresholds}
        \cup {Lit(2999, 10000), Lit(4999, 10000)}

InitStars ==
    /\ py_sum \in PySums
    /\ table = SOURCE_CREDIBILITY
    /\ NoThreads
    /\ NoAgent
    /\ NoExtract
    /\ op = "get_stars"
    /\ arg_confidence \in Confidences
    /\ stars = NoStars
    /\ stars_engine = NoStars
    /\ NoScoreCall
    /\ NoCredibilityCall
    /\ NoAssembly

\* ConfidenceScorer.get_stars(confidence)
ScorerGetStars ==
    /\ op = "get_stars"
    /\ stars = NoStars
    /\ stars' = get_stars(arg_confidence)
    /\ UNCHANGED <<py_sum, table, op, scorer_args, ret, first_ret, calls,
                   arg_confidence, stars_engine, arg_source, cred, analysis,
                   raised, frames,
                   agent, raw_text>>

\* ddr_engine.get_stars(confidence)
EngineGetStars ==
    /\ op = "get_stars"
    /\ stars_engine = NoStars
    /\ stars_engine' = ddr_engine_get_stars(arg_confidence)
    /\ UNCHANGED <<py_sum, table, op, scorer_args, ret, first_ret, calls,
                   arg_confidence, stars, arg_source, cred, analysis, raised,
                   frames,
                   agent, raw_text>>

NextStars == ScorerGetStars \/ EngineGetStars

SpecStars == InitStars /\ [][NextStars]_vars

\* ------------------------------------------------------------------------
\* Repeated calls of score_claim: the same arguments are scored again and
\* again, with calls on other arguments in between.
\* ------------------------------------------------------------------------
MaxCalls == 3

CallInputs ==
    [sources : {<<>>, <<Reuters>>, <<SomeLocalBlog, Reuters>>},
     data_age_months : {3, 999},
     sources_agree : BOOLEAN, has_numbers : BOOLEAN]

InitCalls ==
    /\ py_sum \in PySums
    /\ table = SOURCE_CREDIBILITY
    /\ NoThreads
    /\ NoAgent
    /\ NoExtract
    /\ op = "calls"
    /\ \E i \in CallInputs :
          /\ sources = i.sources
          /\ data_age_months = i.data_age_months
          /\ sources_agree = i.sources_agree
          /\ has_numbers = i.has_numbers
    /\ ret = None
    /\ first_ret = None
    /\ calls = <<>>
    /\ stars = NoStars
    /\ NoStarsCall
    /\ NoCredibilityCall
    /\ NoAssembly

\* score_claim(sources, data_age_months, sources_agree, has_numbers), once more
CallSame ==
    /\ op = "calls"
    /\ Len(calls) < MaxCalls
    /\ ret' = score_claim(sources, data_age_months, sources_agree, has_numbers)
    /\ first_ret' = IF first_ret = None THEN ret' ELSE first_ret
    /\ calls' = Append(calls, "same")
    /\ UNCHANGED <<py_sum, table, op, scorer_args, arg_confidence, stars,
                   stars_engine, arg_source, cred, analysis, raised, frames,
                   agent, raw_text>>

\* score_claim on other arguments; the caller drops the result, and the call
\* leaves nothing else behind.
CallOther ==
    /\ op = "calls"
    /\ Len(calls) < MaxCalls
    /\ \E i \in CallInputs :
          /\ <<i.sources, i.data_age_months, i.sources_agree, i.has_numbers>>
                 # scorer_args
          /\ score_claim(i.sources, i.data_age_months, i.sources_agree,
                         i.has_numbers) # None
    /\ calls' = Append(calls, "other")
    /\ UNCHANGED <<py_sum, table, op, scorer_args, ret, first_ret,
                   arg_confidence, stars, stars_engine, arg_source, cred,
                   analysis, raised, frames,
                   agent, raw_text>>

NextCalls == CallSame \/ CallOther

SpecCalls == InitCalls /\ [][NextCalls]_vars

\* ------------------------------------------------------------------------
\* Calls of _get_credibility on a source of its own.  The sources are built
\* around every key of the table, written in lower case, in upper case and
\* capitalised, and around words that hold no key.
\* ------------------------------------------------------------------------
upper_char(c) ==
    IF \E i \in 1..Len(LowerCase) : LowerCase[i] = c
    THEN UpperCase[CHOOSE i \in 1..Len(LowerCase) : LowerCase[i] = c]
    ELSE c

upper(s) == [i \in 1..Len(s) |-> upper_char(s[i])]

capitalize(s) ==
    [i \in 1..Len(s) |-> IF i = 1 THEN upper_char(s[i]) ELSE s[i]]

Keys == {SOURCE_CREDIBILITY[i].key : i \in 1..Len(SOURCE_CREDIBILITY)}

Spellings(w) == {w, upper(w), capitalize(w)}

PlainWords == {<<"l", "o", "c", "a", "l">>, <<"b", "l", "o", "g">>, <<>>}

Prefixes == {<<>>, <<"S", "e", "e", " ">>, <<"s", "o", "m", "e", " ">>}

Suffixes == {<<>>, <<" ", "T", "e", "r", "m", "i", "n", "a", "l", " ", "d", "a", "t", "a">>, <<" ", "b", "l", "o", "g">>}

Around(words) ==
    {p \o w \o q : p \in Prefixes, w \in words, q \in Suffixes}

\* Labels that name two organisations of the table.
TwoKeyLabels ==
    {capitalize(k1) \o <<" ", "a", "n", "d", " ">> \o upper(k2) :
        k1 \in Keys, k2 \in Keys}
        \cup {ReutersAndSec}

SourceLabels ==
    Around(UNION {Spellings(k) : k \in Keys}) \cup Around(PlainWords)
        \cup TwoKeyLabels

InitCredibility ==
    /\ py_sum \in PySums
    /\ table = SOURCE_CREDIBILITY
    /\ NoThreads
    /\ NoAgent
    /\ NoExtract
    /\ op = "_get_credibility"
    /\ arg_source \in SourceLabels
    /\ cred = None
    /\ stars = NoStars
    /\ NoScoreCall
    /\ NoStarsCall
    /\ NoAssembly

\* ConfidenceScorer._get_credibility(source)
GetCredibility ==
    /\ op = "_get_credibility"
    /\ cred = None
    /\ cred' = _get_credibility(arg_source)
    /\ UNCHANGED <<py_sum, table, op, scorer_args, ret, first_ret, calls,
                   arg_confidence, stars, stars_engine, arg_source, analysis,
                   raised, frames,
                   agent, raw_text>>

NextCredibility == GetCredibility

SpecCredibility == InitCredibility /\ [][NextCredibility]_vars

\* ------------------------------------------------------------------------
\* DueDiligenceAnalyzer.add_confidence_scores.  The analysis is the parsed
\* JSON of the model's answer: a dict is a function on its keys, a list a
\* sequence, and the value of an optional field of a claim record is tagged
\* with its JSON type, null included.
\* ------------------------------------------------------------------------
MaxClaims == 2

JNull == [t |-> "null"]
JList(v) == [t |-> "list", v |-> v]
JInt(v) == [t |-> "int", v |-> v]
JBool(v) == [t |-> "bool", v |-> v]
JFloat(v) == [t |-> "float", v |-> v]
JStr(v) == [t |-> "str", v |-> v]

\* d.get(key, default)
dict_get(d, key, default) == IF key \in DOMAIN d THEN d[key] ELSE default

\* d[key] = value
dict_set(d, key, value) ==
    [k \in DOMAIN d \cup {key} |-> IF k = key THEN value ELSE d[k]]

\* Mutant of call_score_claim: the sources are taken to agree.
call_score_claim_agreeing(sources_value, numbers) ==
    IF sources_value.t = "list"
    THEN [exc |-> "none",
          conf |-> score_claim(sources_value.v, 999, TRUE, numbers)]
    ELSE [exc |-> "TypeError", conf |-> FZero]

\* score_claim called with the sources value of a record and the defaults of
\* its other parameters: len(sources) raises TypeError when sources is None.
call_score_claim(sources_value, numbers) ==
    IF sources_value.t = "list"
    THEN [exc |-> "none",
          conf |-> score_claim(sources_value.v, 999, FALSE, numbers)]
    ELSE [exc |-> "TypeError", conf |-> FZero]

\* Mutant of store_score: the score and the stars are put in a new dict,
\* which replaces the record.
store_score_fresh(claim, r) ==
    IF r.exc # "none" THEN [exc |-> r.exc, claim |-> claim]
    ELSE [exc |-> "none",
          claim |-> [ai_confidence_score |-> JFloat(r.conf),
                     ai_confidence_stars |-> JStr(get_stars(r.conf))]]

\* claim['ai_confidence_score'] = conf; claim['ai_confidence_stars'] = ...
\* with r the outcome of the score_claim call: an exception leaves the
\* record as it was.
store_score(claim, r) ==
    IF r.exc # "none" THEN [exc |-> r.exc, claim |-> claim]
    ELSE [exc |-> "none",
          claim |-> dict_set(
                        dict_set(claim, "ai_confidence_score", JFloat(r.conf)),
                        "ai_confidence_stars", JStr(get_stars(r.conf)))]

\* The body of one of the loops: the record is scored and the score and its
\* stars are stored in it.
annotate(claim, sources_value, numbers) ==
    store_score(claim, call_score_claim(sources_value, numbers))

\* for claim in claims: ...   from record i on; the loop ends with the first
\* exception, the records before it stay scored.
RECURSIVE annotate_from(_, _, _, _)
RECURSIVE annotate_next(_, _, _, _, _)
annotate_from(claims, i, numbers, own_sources) ==
    IF i > Len(claims) THEN [exc |-> "none", claims |-> claims]
    ELSE annotate_next(claims, i, numbers, own_sources,
                       annotate(claims[i],
                                IF own_sources
                                THEN dict_get(claims[i], "sources", JList(<<>>))
                                ELSE JList(<<>>),
                                numbers))

\* The loop after record i, with r the outcome of its round.
annotate_next(claims, i, numbers, own_sources, r) ==
    IF r.exc # "none" THEN [exc |-> r.exc, claims |-> claims]
    ELSE annotate_from([claims EXCEPT ![i] = r.claim], i + 1, numbers,
                       own_sources)

\* The analysis after a loop that ended as r says.
section_done(state, section, r) ==
    [exc |-> r.exc, analysis |-> [state.analysis EXCEPT ![section] = r.claims]]

\* One of the three loops over a section of the analysis; nothing happens once
\* an exception is on its way.
annotate_section(state, section, numbers, own_sources) ==
    IF state.exc # "none" \/ section \notin DOMAIN state.analysis THEN state
    ELSE section_done(state, section,
                      annotate_from(state.analysis[section], 1, numbers,
                                    own_sources))

\* The analysis after the bankruptcy record was scored as r says.
bankruptcy_done(state, r) ==
    [exc |-> r.exc,
     analysis |->
         [state.analysis
             EXCEPT !["company_financial_legal_status"]["bankruptcy_insolvency"]
                        = r.claim]]

\* bank = status['bankruptcy_insolvency']; ...
annotate_bank(state, bank) ==
    bankruptcy_done(state,
                    annotate(bank, dict_get(bank, "sources", JList(<<>>)), TRUE))

annotate_bankruptcy(state) ==
    IF state.exc # "none"
           \/ "company_financial_legal_status" \notin DOMAIN state.analysis
           \/ "bankruptcy_insolvency"
                  \notin DOMAIN state.analysis["company_financial_legal_status"]
    THEN state
    ELSE annotate_bank(
             state,
             state.analysis["company_financial_legal_status"]
                           ["bankruptcy_insolvency"])

add_confidence_scores(doc) ==
    annotate_bankruptcy(
        annotate_section(
            annotate_section(
                annotate_section([exc |-> "none", analysis |-> doc],
                                 "technology_claims", FALSE, TRUE),
                "market_claims", TRUE, TRUE),
            "unverified_claims", FALSE, FALSE))

\* Claim records, as the model's JSON may hold them.
TEXT == <<"x">>
RecordBare == [claim |-> JStr(TEXT)]
RecordNullSources == [claim |-> JStr(TEXT), sources |-> JNull]
RecordNoSources == [claim |-> JStr(TEXT), sources |-> JList(<<>>)]
RecordReuters ==
    [claim |-> JStr(TEXT), sources |-> JList(<<Reuters>>),
     data_age_months |-> JInt(3), sources_agree |-> JBool(TRUE),
     has_numbers |-> JBool(TRUE)]
RecordTwo ==
    [claim |-> JStr(TEXT), sources |-> JList(<<Reuters, SomeLocalBlog>>),
     data_age_months |-> JNull, sources_agree |-> JNull, has_numbers |-> JNull]
RecordBest ==
    [claim |-> JStr(TEXT),
     sources |-> JList(<<Bloomberg, SEC, Bloomberg, SEC, Bloomberg>>)]

RecordSix ==
    [claim |-> JStr(TEXT),
     sources |-> JList(<<SEC, SEC, SEC, SEC, SEC, SEC>>)]

TechnologyRecords ==
    {RecordBare, RecordNullSources, RecordReuters, RecordBest, RecordSix}

\* The dict d without the key gone.
Without(d, gone) == [k \in DOMAIN d \ {gone} |-> d[k]]

StatusDicts ==
    {[other |-> JNull]}
        \cup {[bankruptcy_insolvency |-> b] :
                 b \in {RecordBare, RecordNullSources, RecordReuters}}

Analyses ==
    LET full ==
            [technology_claims : SeqsUpTo(TechnologyRecords, MaxClaims),
             market_claims : {<<>>, <<RecordNoSources>>, <<RecordBest>>,
                              <<RecordSix>>},
             unverified_claims : {<<RecordBare>>, <<RecordTwo, RecordReuters>>},
             company_financial_legal_status : StatusDicts]
        keys == {"technology_claims", "market_claims", "unverified_claims",
                 "company_financial_legal_status"}
    IN  full \cup {Without(d, k) : d \in full, k \in keys}

InitAssemble ==
    /\ py_sum \in PySums
    /\ table = SOURCE_CREDIBILITY
    /\ NoThreads
    /\ NoAgent
    /\ NoExtract
    /\ op = "add_confidence_scores"
    /\ analysis \in Analyses
    /\ raised = "none"
    /\ stars = NoStars
    /\ NoScoreCall
    /\ NoStarsCall
    /\ NoCredibilityCall

\* The call ends as r says: the records are updated in place, and the
\* analysis is returned unless an exception ends the call.
Returns(r) ==
    /\ analysis' = r.analysis
    /\ raised' = r.exc
    /\ ret' = IF r.exc = "none" THEN r.analysis ELSE None

\* scored = analyzer.add_confidence_scores(analysis): the whole call.  It
\* returns the analysis it was given, or ends with the exception.
AddConfidenceScores ==
    /\ op = "add_confidence_scores"
    /\ ret = None
    /\ raised = "none"
    /\ Returns(add_confidence_scores(analysis))
    /\ UNCHANGED <<py_sum, table, op, scorer_args, first_ret, calls,
                   arg_confidence, stars, stars_engine, arg_source, cred,
                   frames,
                   agent, raw_text>>

NextAssemble == AddConfidenceScores

SpecAssemble == InitAssemble /\ [][NextAssemble]_vars

\* ------------------------------------------------------------------------
\* Exact arithmetic on floats, for stating tolerances: Fix(x) is the natural
\* x * 2^FixBits of a float x >= 0 whose exponent is at least -FixBits.
\* ------------------------------------------------------------------------
FixBits == 7 * 10

Fix(x) == IF x = FZero THEN <<>> ELSE BShl(x.m, x.e + FixBits)

BAbsDiff(a, b) == IF BCmp(a, b) >= 0 THEN BSub(a, b) ELSE BSub(b, a)

BMin(a, b) == IF BCmp(a, b) <= 0 THEN a ELSE b

\* |after - min(1, before + hundredths/100)| <= 2^-52, in exact arithmetic
\* (both sides scaled by 100 * 2^FixBits).
WithinRounding(after, before, hundredths) ==
    LET one    == BMulSmall(BShl(<<1>>, FixBits), 100)
        target == BMin(one, BAdd(BMulSmall(Fix(before), 100),
                                 BMulSmall(BShl(<<1>>, FixBits), hundredths)))
        tol    == BMulSmall(BShl(<<1>>, FixBits - 52), 100)
    IN  BCmp(BAbsDiff(BMulSmall(Fix(after), 100), target), tol) <= 0

\* A call of score_claim has returned and its result is not yet rated.
Scored == op = "score_claim" /\ ret # None /\ stars = NoStars

\* Every source of srcs has the credibility weight of s.
SameWeight(srcs, s) ==
    \A i \in 1..Len(srcs) : _get_credibility(srcs[i]) = _get_credibility(s)

\* C1: every score score_claim returns lies in [0.0, 1.0], for every source
\* list, age and flag setting.
C1_Bounded ==
    (op = "score_claim" /\ ret # None) => FGe(ret, FZero) /\ FLe(ret, CEILING)

\* C1 witness: a call whose sum of bonuses exceeds 1.0 has returned the
\* ceiling.
C1_Witness ==
    /\ Scored
    /\ ret = CEILING
    /\ FLt(CEILING, raw_confidence(sources, data_age_months, sources_agree,
                                   has_numbers))

\* C2 as stated: with equal-weight sources and the other inputs fixed, one
\* more source never lowers the score, at any count, and raises it strictly
\* at 0->1, 1->2, 2->3 and 4->5.
C2_Original ==
    Scored =>
        \A s \in UniformPool :
            (Len(sources) < MaxSources /\ SameWeight(sources, s)) =>
                LET more == score_claim(Append(sources, s), data_age_months,
                                        sources_agree, has_numbers)
                IN  /\ FGe(more, ret)
                    /\ (Len(sources) \in {0, 1, 2, 4} /\ ret # CEILING)
                            => FLt(ret, more)

\* C2 amended: with equal-weight sources and the other inputs fixed, one more
\* source never lowers the score while the count grows from 0 to 5, and raises
\* it strictly at 0->1, 1->2, 2->3 and 4->5 (unless the score is already at the
\* ceiling).
C2_UpToFive ==
    Scored =>
        \A s \in UniformPool :
            (Len(sources) < 5 /\ SameWeight(sources, s)) =>
                LET more == score_claim(Append(sources, s), data_age_months,
                                        sources_agree, has_numbers)
                IN  /\ FGe(more, ret)
                    /\ (Len(sources) \in {0, 1, 2, 4} /\ ret # CEILING)
                            => FLt(ret, more)

\* C2 witness: a call with four equal-weight sources has returned, and a fifth
\* one scores strictly higher.
C2_Witness ==
    /\ Scored
    /\ Len(sources) = 4
    /\ SameWeight(sources, sources[1])
    /\ FLt(ret, score_claim(Append(sources, sources[1]), data_age_months,
                            sources_agree, has_numbers))

\* C3: with the other inputs fixed, older data never scores higher: for ages
\* a <= b, score(a) >= score(b).
C3_RecencyMonotone ==
    Scored =>
        \A b \in Ages :
            data_age_months <= b =>
                FGe(ret, score_claim(sources, b, sources_agree, has_numbers))

\* C3 witness: a call with data three months old has returned, and it scores
\* strictly above the same call at nine months, which scores strictly above
\* the one at twenty-four.
C3_Witness ==
    /\ Scored
    /\ data_age_months = 3
    /\ FLt(score_claim(sources, 9, sources_agree, has_numbers), ret)
    /\ FLt(score_claim(sources, 24, sources_agree, has_numbers),
           score_claim(sources, 9, sources_agree, has_numbers))

\* C4 as stated: switching sources_agree on adds exactly 0.15, has_numbers
\* exactly 0.10 and both exactly 0.25 to the score, up to the ceiling; read as
\* the float comparison  after == min(1.0, before + bonus).
C4_Original ==
    Scored =>
        /\ ~sources_agree =>
              score_claim(sources, data_age_months, TRUE, has_numbers)
                  = min_ceiling(FAdd(ret, Lit(15, 100)))
        /\ ~has_numbers =>
              score_claim(sources, data_age_months, sources_agree, TRUE)
                  = min_ceiling(FAdd(ret, Lit(10, 100)))
        /\ (~sources_agree /\ ~has_numbers) =>
              score_claim(sources, data_age_months, TRUE, TRUE)
                  = min_ceiling(FAdd(ret, Lit(25, 100)))

\* C4 amended: switching sources_agree on raises the score by 0.15,
\* has_numbers by 0.10 and both by 0.25, each limited by the ceiling and each
\* up to rounding: the new score is within 2^-52 of
\* min(1.0, score_before + bonus).
C4_UpToRounding ==
    Scored =>
        /\ ~sources_agree =>
              WithinRounding(
                  score_claim(sources, data_age_months, TRUE, has_numbers),
                  ret, 15)
        /\ ~has_numbers =>
              WithinRounding(
                  score_claim(sources, data_age_months, sources_agree, TRUE),
                  ret, 10)
        /\ (~sources_agree /\ ~has_numbers) =>
              WithinRounding(
                  score_claim(sources, data_age_months, TRUE, TRUE), ret, 25)

\* C4 witness: a call with both flags off has returned below the ceiling, and
\* the same call with both flags on returns a different float than
\* score + 0.25.
C4_Witness ==
    /\ Scored
    /\ ~sources_agree
    /\ ~has_numbers
    /\ score_claim(sources, data_age_months, TRUE, TRUE) # CEILING
    /\ score_claim(sources, data_age_months, TRUE, TRUE)
           # FAdd(ret, Lit(25, 100))

\* C10: score_claim([], 999, False, False) returns the float 0.30 and rates 2
\* stars; score_claim(["Reuters"], 3, False, True) returns the float 0.85 and
\* rates 5 stars.
C10_Scenarios ==
    (op = "score_claim" /\ ret # None /\ ~sources_agree) =>
        /\ (sources = <<>> /\ data_age_months = 999 /\ ~has_numbers) =>
              /\ ret = Lit(30, 100)
              /\ stars \in {NoStars, LABEL_2}
        /\ (sources = <<Reuters>> /\ data_age_months = 3 /\ has_numbers) =>
              /\ ret = Lit(85, 100)
              /\ stars \in {NoStars, LABEL_5}

\* C10 witness: the Reuters scenario has been scored and rated.
C10_Witness ==
    /\ op = "score_claim"
    /\ sources = <<Reuters>>
    /\ data_age_months = 3
    /\ ~sources_agree
    /\ has_numbers
    /\ ret # None
    /\ stars # NoStars

\* The band of a confidence, counted from the bounds it reaches: 1 plus the
\* number of lower bounds 0.30, 0.50, 0.70, 0.85 that it is at or above.
Band(c) == 1 + Cardinality({t \in Thresholds : FGe(c, t)})

Labels == {LABEL_1, LABEL_2, LABEL_3, LABEL_4, LABEL_5}

\* C5: get_stars gives every confidence in [0, 1] one of the five labels, the
\* one of its band ([0.85, 1] five stars, [0.70, 0.85) four, [0.50, 0.70)
\* three, [0.30, 0.50) two, below 0.30 one, lower bounds inclusive), and
\* ConfidenceScorer.get_stars and ddr_engine.get_stars return the same label.
C5_Bands ==
    op = "get_stars" =>
        /\ stars # NoStars =>
              stars \in Labels /\ Len(stars) = Band(arg_confidence)
        /\ stars_engine # NoStars =>
              stars_engine \in Labels /\ Len(stars_engine) = Band(arg_confidence)
        /\ (stars # NoStars /\ stars_engine # NoStars) => stars = stars_engine
        /\ (arg_confidence = Lit(2999, 10000) /\ stars # NoStars)
              => stars = LABEL_1
        /\ (arg_confidence = Lit(30, 100) /\ stars # NoStars) => stars = LABEL_2
        /\ (arg_confidence = Lit(4999, 10000) /\ stars # NoStars)
              => stars = LABEL_2
        /\ (arg_confidence = Lit(50, 100) /\ stars # NoStars) => stars = LABEL_3

\* C5 witness: both get_stars have rated the confidence 0.85, the lowest of
\* the five-star band.
C5_Witness ==
    /\ op = "get_stars"
    /\ arg_confidence = STARS_5_MIN
    /\ stars = LABEL_5
    /\ stars_engine = LABEL_5

\* C6: the number of stars never goes down as the confidence goes up: for
\* confidences c1 <= c2, get_stars(c1) has at most as many stars as
\* get_stars(c2), and equal confidences get the same label.
C6_StarsMonotone ==
    (op = "get_stars" /\ stars # NoStars) =>
        \A c2 \in Confidences :
            /\ FLe(arg_confidence, c2) => Len(stars) <= Len(get_stars(c2))
            /\ arg_confidence = c2 => stars = get_stars(c2)

\* C6 witness: a confidence just below 0.70 has been rated three stars, one
\* less than 0.70 itself.
C6_Witness ==
    /\ op = "get_stars"
    /\ arg_confidence = NextDown(STARS_4_MIN)
    /\ stars = LABEL_3
    /\ get_stars(STARS_4_MIN) = LABEL_4

KEY_BLOOMBERG == <<"b", "l", "o", "o", "m", "b", "e", "r", "g">>

\* C8: _get_credibility matches by containment in the lowercased source: a
\* source that holds "bloomberg" in any spelling gets 0.95 ("See Bloomberg
\* Terminal data" does), and a source that holds no key of the table gets the
\* default 0.20 ("some local blog" does).
C8_Containment ==
    (op = "_get_credibility" /\ cred # None) =>
        /\ arg_source \in Around(Spellings(KEY_BLOOMBERG)) => cred = Lit(95, 100)
        /\ contains(lower(arg_source), KEY_BLOOMBERG) => cred = Lit(95, 100)
        /\ arg_source \in Around(PlainWords) => cred = Lit(20, 100)
        /\ (\A k \in Keys : ~contains(lower(arg_source), k))
              => cred = Lit(20, 100)
        /\ arg_source = SeeBloombergTerminalData => cred = Lit(95, 100)
        /\ arg_source = SomeLocalBlog => cred = Lit(20, 100)

\* C8 witness: "See Bloomberg Terminal data", which is not a key and is not in
\* lower case, has been given the weight of bloomberg.
C8_Witness ==
    /\ op = "_get_credibility"
    /\ arg_source = SeeBloombergTerminalData
    /\ arg_source # lower(arg_source)
    /\ arg_source \notin Keys
    /\ cred = Lit(95, 100)

OPTIONAL_FIELDS == {"sources", "data_age_months", "sources_agree", "has_numbers"}

\* A claim record that carries no evidence: each optional field is absent or
\* null.
MissingEvidence(claim) ==
    \A f \in OPTIONAL_FIELDS : f \in DOMAIN claim => claim[f] = JNull

\* The record has been scored as score_claim() scores its defaults.
ScoredAsDefaults(claim) ==
    LET conf == score_claim(<<>>, 999, FALSE, FALSE)
    IN  /\ "ai_confidence_score" \in DOMAIN claim
        /\ claim["ai_confidence_score"] = JFloat(conf)
        /\ "ai_confidence_stars" \in DOMAIN claim
        /\ claim["ai_confidence_stars"] = JStr(get_stars(conf))

\* The claim records of the analysis d that add_confidence_scores visits.
ClaimRecords(d) ==
    UNION {{d[s][i] : i \in 1..Len(d[s])} :
              s \in DOMAIN d \cap {"technology_claims", "market_claims",
                                   "unverified_claims"}}
        \cup (IF "company_financial_legal_status" \in DOMAIN d
                 /\ "bankruptcy_insolvency"
                        \in DOMAIN d["company_financial_legal_status"]
              THEN {d["company_financial_legal_status"]["bankruptcy_insolvency"]}
              ELSE {})

AssemblyDone == op = "add_confidence_scores" /\ (ret # None \/ raised # "none")

\* C9: scoring never raises on missing evidence: once add_confidence_scores
\* has ended, it has ended without an exception, and every record of the
\* analysis whose optional fields (sources, data_age_months, sources_agree,
\* has_numbers) are absent or null carries the score and the stars of the
\* defaults: no sources, age 999, no agreement, no numbers.
C9_Original ==
    AssemblyDone =>
        /\ raised = "none"
        /\ \A claim \in ClaimRecords(analysis) :
               MissingEvidence(claim) => ScoredAsDefaults(claim)

\* |x - thousandths/1000| <= 0.0005, in exact arithmetic: x is the decimal
\* thousandths/1000 when written with three decimals.
NearThousandths(x, thousandths) ==
    BCmp(BAbsDiff(BMulSmall(Fix(x), 2000),
                  BMulSmall(BShl(<<1>>, FixBits), 2 * thousandths)),
         BShl(<<1>>, FixBits)) <= 0

FiveGoodSources == <<Bloomberg, Reuters, SEC, Crunchbase, PitchBook>>

\* The call of the five-source scenario has returned.
FiveSourceScenario ==
    /\ op = "score_claim"
    /\ ret # None
    /\ sources = FiveGoodSources
    /\ data_age_months = 2
    /\ sources_agree
    /\ has_numbers

\* C11 as stated: for the sources Bloomberg, Reuters, SEC, Crunchbase and
\* PitchBook, age 2 and both flags on, the sum before the ceiling is 1.195,
\* and score_claim returns 1.0, rated 5 stars.
C11_Original ==
    FiveSourceScenario =>
        /\ NearThousandths(raw_confidence(sources, data_age_months,
                                          sources_agree, has_numbers), 1195)
        /\ ret = CEILING
        /\ stars \in {NoStars, LABEL_5}

\* C11 amended: in that scenario the sum before the ceiling is 1.223
\* (0.30 + 0.25 + 0.273 + 0.15 + 0.15 + 0.10), and score_claim returns 1.0,
\* rated 5 stars.
C11_Sum1223 ==
    FiveSourceScenario =>
        /\ NearThousandths(raw_confidence(sources, data_age_months,
                                          sources_agree, has_numbers), 1223)
        /\ NearThousandths(
               FMul(FDivInt(builtin_sum([i \in 1..5 |->
                                            _get_credibility(sources[i])]), 5),
                    CRED_FACTOR), 273)
        /\ ret = CEILING
        /\ stars \in {NoStars, LABEL_5}

\* C11 witness: the scenario has been scored and rated.
C11_Witness == FiveSourceScenario /\ stars = LABEL_5

\* C12 as stated: with the other inputs equal, any two ages that are both
\* greater than 6 months get the same score.
C12_Original ==
    Scored =>
        \A b \in Ages :
            (data_age_months > 6 /\ b > 6) =>
                score_claim(sources, b, sources_agree, has_numbers) = ret

\* C12 amended: with the other inputs equal, any two ages that are both
\* greater than 12 months get the same score (between 7 and 12 months the
\* score is 0.08 higher, unless the ceiling hides it).
C12_BeyondTwelve ==
    Scored =>
        /\ \A b \in Ages :
               (data_age_months > 12 /\ b > 12) =>
                   score_claim(sources, b, sources_agree, has_numbers) = ret
        /\ \A b \in Ages :
               (data_age_months > 6 /\ data_age_months <= 12 /\ b > 12
                    /\ ret # CEILING) =>
                   FLt(score_claim(sources, b, sources_agree, has_numbers), ret)

\* C12 witness: a call with data 13 months old has returned what the call
\* with data 999 months old returns, and less than the call at 9 months.
C12_Witness ==
    /\ Scored
    /\ data_age_months = 13
    /\ ret = score_claim(sources, 999, sources_agree, has_numbers)
    /\ FLt(ret, score_claim(sources, 9, sources_agree, has_numbers))

\* ------------------------------------------------------------------------
\* Concurrent calls of score_claim, each followed by get_stars.  Every call
\* has a frame of its own: its arguments and its local variables.  A step is
\* one statement of score_claim (one item of the generator for line 77),
\* and the steps of different calls interleave freely.  The only thing the
\* calls share is the module global SOURCE_CREDIBILITY, which every lookup
\* reads as it is at that moment.
\* ------------------------------------------------------------------------
MaxThreads == 2

Threads == 1..MaxThreads

ThreadInputs ==
    { [sources |-> <<Reuters>>, data_age_months |-> 3,
       sources_agree |-> FALSE, has_numbers |-> TRUE],
      [sources |-> <<SomeLocalBlog, Bloomberg>>, data_age_months |-> 9,
       sources_agree |-> TRUE, has_numbers |-> FALSE],
      [sources |-> <<>>, data_age_months |-> 999,
       sources_agree |-> FALSE, has_numbers |-> FALSE] }

\* The frame of a call that has not started.
new_frame(i) ==
    [pc |-> "call", sources |-> i.sources,
     data_age_months |-> i.data_age_months,
     sources_agree |-> i.sources_agree, has_numbers |-> i.has_numbers,
     confidence |-> None, creds |-> <<>>, ret |-> None, stars |-> NoStars]

\* The call of the frame is between its first and its last statement.
in_call(f) == f.pc \notin {"call", "returned", "rated"}

InitThreads ==
    /\ py_sum \in PySums
    /\ table = SOURCE_CREDIBILITY
    /\ op = "threads"
    /\ frames \in [Threads -> {new_frame(i) : i \in ThreadInputs}]
    /\ NoAgent
    /\ NoExtract
    /\ stars = NoStars
    /\ NoScoreCall
    /\ NoStarsCall
    /\ NoCredibilityCall
    /\ NoAssembly

\* Mutant of store_confidence: the accumulator is one variable that all
\* calls share (an attribute of the class, not a local).
store_confidence_shared(fr, t, value) ==
    [u \in DOMAIN fr |-> [fr[u] EXCEPT !.confidence = value]]

\* confidence = value   in the frame of call t: a local variable.
store_confidence(fr, t, value) == [fr EXCEPT ![t].confidence = value]

\* Call t moves on to the statement at pc.
goto(fr, t, pc) == [fr EXCEPT ![t].pc = pc]

\* What no step of the scorer writes.
ThreadsLeave ==
    UNCHANGED <<py_sum, table, op, scorer_args, ret, first_ret, calls,
                arg_confidence, stars, stars_engine, arg_source, cred,
                analysis, raised, agent, raw_text>>

\* confidence = 0.3
T_Base(t) ==
    /\ frames[t].pc = "call"
    /\ frames' = goto(store_confidence(frames, t, BASE_CONFIDENCE), t, "volume")
    /\ ThreadsLeave

\* if len(sources) >= 5: ... elif ...
T_Volume(t) ==
    /\ frames[t].pc = "volume"
    /\ frames' = goto(store_confidence(
                          frames, t,
                          volume_bonus(frames[t].confidence,
                                       Len(frames[t].sources))),
                      t, "if_sources")
    /\ ThreadsLeave

\* if sources:
T_IfSources(t) ==
    /\ frames[t].pc = "if_sources"
    /\ frames' = goto(frames, t,
                      IF frames[t].sources # <<>> THEN "lookup" ELSE "recency")
    /\ ThreadsLeave

\* One item of the generator: ConfidenceScorer._get_credibility(s), which
\* reads SOURCE_CREDIBILITY.
T_Lookup(t) ==
    /\ frames[t].pc = "lookup"
    /\ Len(frames[t].creds) < Len(frames[t].sources)
    /\ frames' = goto([frames EXCEPT ![t].creds =
                          Append(@, _get_credibility(
                                        frames[t].sources[Len(@) + 1]))],
                      t, "lookup")
    /\ ThreadsLeave

\* avg_cred = sum(...) / len(sources); confidence += avg_cred * 0.30
T_AvgCred(t) ==
    /\ frames[t].pc = "lookup"
    /\ Len(frames[t].creds) = Len(frames[t].sources)
    /\ frames' = goto(store_confidence(
                          frames, t,
                          add_avg_cred(frames[t].confidence, frames[t].creds)),
                      t, "recency")
    /\ ThreadsLeave

\* if data_age_months <= 6: ... elif data_age_months <= 12: ...
T_Recency(t) ==
    /\ frames[t].pc = "recency"
    /\ frames' = goto(store_confidence(
                          frames, t,
                          recency_bonus(frames[t].confidence,
                                        frames[t].data_age_months)),
                      t, "agree")
    /\ ThreadsLeave

\* if sources_agree: confidence += 0.15
T_Agree(t) ==
    /\ frames[t].pc = "agree"
    /\ frames' = goto(store_confidence(
                          frames, t,
                          agree_bonus(frames[t].confidence,
                                      frames[t].sources_agree)),
                      t, "numbers")
    /\ ThreadsLeave

\* if has_numbers: confidence += 0.10
T_Numbers(t) ==
    /\ frames[t].pc = "numbers"
    /\ frames' = goto(store_confidence(
                          frames, t,
                          numbers_bonus(frames[t].confidence,
                                        frames[t].has_numbers)),
                      t, "return")
    /\ ThreadsLeave

\* return min(1.0, confidence)
T_Return(t) ==
    /\ frames[t].pc = "return"
    /\ frames' = goto([frames EXCEPT ![t].ret =
                          min_ceiling(frames[t].confidence)],
                      t, "returned")
    /\ ThreadsLeave

\* get_stars(conf), by the caller
T_GetStars(t) ==
    /\ frames[t].pc = "returned"
    /\ frames' = goto([frames EXCEPT ![t].stars = get_stars(frames[t].ret)],
                      t, "rated")
    /\ ThreadsLeave

NextThreads ==
    \E t \in Threads :
        \/ T_Base(t)
        \/ T_Volume(t)
        \/ T_IfSources(t)
        \/ T_Lookup(t)
        \/ T_AvgCred(t)
        \/ T_Recency(t)
        \/ T_Agree(t)
        \/ T_Numbers(t)
        \/ T_Return(t)
        \/ T_GetStars(t)

SpecThreads == InitThreads /\ [][NextThreads]_vars

\* C13: the scorer has no shared mutable state: no step of a call changes
\* SOURCE_CREDIBILITY, and under every interleaving each call returns the
\* score, and gets the stars, that the same call returns when it runs alone.
C13_NoInterference ==
    op = "threads" =>
        /\ table = SOURCE_CREDIBILITY
        /\ \A t \in DOMAIN frames :
              /\ frames[t].pc \in {"returned", "rated"} =>
                    frames[t].ret = score_claim(frames[t].sources,
                                                frames[t].data_age_months,
                                                frames[t].sources_agree,
                                                frames[t].has_numbers)
              /\ frames[t].pc = "rated" =>
                    frames[t].stars = get_stars(frames[t].ret)

\* C13 witness: two calls with different arguments are under way at the same
\* time, both about to return, and each holds in its own accumulator the sum
\* that the call reaches when it runs alone.
C13_Witness ==
    /\ op = "threads"
    /\ frames[1].pc = "return"
    /\ frames[2].pc = "return"
    /\ frames[1].confidence # frames[2].confidence
    /\ \A t \in {1, 2} :
          frames[t].confidence = raw_confidence(frames[t].sources,
                                                frames[t].data_age_months,
                                                frames[t].sources_agree,
                                                frames[t].has_numbers)

AI_FIELDS == {"ai_confidence_score", "ai_confidence_stars"}

\* The record without the two fields add_confidence_scores writes.
OwnFields(claim) == [k \in DOMAIN claim \ AI_FIELDS |-> claim[k]]

\* The record carries a score in [0, 1] and the stars of that score.
CarriesScore(claim) ==
    /\ AI_FIELDS \subseteq DOMAIN claim
    /\ claim["ai_confidence_score"].t = "float"
    /\ FGe(claim["ai_confidence_score"].v, FZero)
    /\ FLe(claim["ai_confidence_score"].v, CEILING)
    /\ claim["ai_confidence_stars"]
           = JStr(get_stars(claim["ai_confidence_score"].v))

CLAIM_SECTIONS == {"technology_claims", "market_claims", "unverified_claims"}

\* The analysis after holds the records of the analysis before, in the same
\* places and with their own fields as they were, and nothing else differs.
SameButScores(before, after) ==
    /\ DOMAIN after = DOMAIN before
    /\ \A s \in DOMAIN before \cap CLAIM_SECTIONS :
          /\ Len(after[s]) = Len(before[s])
          /\ \A i \in 1..Len(before[s]) :
                OwnFields(after[s][i]) = OwnFields(before[s][i])
    /\ "company_financial_legal_status" \in DOMAIN before =>
          LET b == before["company_financial_legal_status"]
              a == after["company_financial_legal_status"]
          IN  /\ DOMAIN a = DOMAIN b
              /\ \A k \in DOMAIN b :
                    IF k = "bankruptcy_insolvency"
                    THEN OwnFields(a[k]) = OwnFields(b[k])
                    ELSE a[k] = b[k]

\* C14: when add_confidence_scores returns, every record of
\* technology_claims, market_claims and unverified_claims and the
\* bankruptcy_insolvency record carries an ai_confidence_score in [0, 1] and
\* the ai_confidence_stars of that score; what is returned is the analysis
\* that was passed in, with no record added or removed and no other field
\* changed.
C14_Annotated ==
    [][(op = "add_confidence_scores" /\ ret = None /\ ret' # None) =>
          /\ ret' = analysis'
          /\ SameButScores(analysis, analysis')
          /\ \A claim \in ClaimRecords(analysis') : CarriesScore(claim)]_vars

\* C14 witness: the call has returned an analysis with two technology
\* records, a market record, two unverified records and a bankruptcy record,
\* which carry different scores.
C14_Witness ==
    /\ op = "add_confidence_scores"
    /\ ret # None
    /\ ret = analysis
    /\ DOMAIN analysis = CLAIM_SECTIONS \cup {"company_financial_legal_status"}
    /\ Len(analysis["technology_claims"]) = 2
    /\ Len(analysis["market_claims"]) = 1
    /\ Len(analysis["unverified_claims"]) = 2
    /\ "bankruptcy_insolvency" \in DOMAIN analysis["company_financial_legal_status"]
    /\ \A claim \in ClaimRecords(analysis) : CarriesScore(claim)
    /\ analysis["technology_claims"][1]["ai_confidence_score"]
           # analysis["technology_claims"][2]["ai_confidence_score"]

\* The baseline plus the one volume tier of a list of n sources, in
\* hundredths: 0 for none, 3 for one, 8 for two, 15 for three or four, 25 for
\* five or more.
TierHundredths(n) ==
    CASE n = 0 -> 0
      [] n = 1 -> 3
      [] n = 2 -> 8
      [] n \in {3, 4} -> 15
      [] OTHER -> 25

BaseWithTier(n) ==
    IF TierHundredths(n) = 0 THEN BASE_CONFIDENCE
    ELSE FAdd(BASE_CONFIDENCE, Lit(TierHundredths(n), 100))

\* C15: the volume bonus depends on the length of the source list alone and
\* is one tier, never a sum of tiers: every score returned is the score that
\* results when 0.30 plus the single tier of the list's length (0, 0.03, 0.08,
\* 0.15 for 3 or 4, 0.25 for 5 or more) goes through the remaining steps.
C15_OneTier ==
    Scored =>
        ret = min_ceiling(
                  numbers_bonus(
                      agree_bonus(
                          recency_bonus(
                              credibility_bonus(BaseWithTier(Len(sources)),
                                                sources),
                              data_age_months),
                          sources_agree),
                      has_numbers))

\* C15 witness: a call with four sources and one with six have returned
\* below the ceiling.
C15_Witness ==
    /\ Scored
    /\ Len(sources) = 4
    /\ ret # CEILING
    /\ score_claim(Repeat(SomeLocalBlog, 6), data_age_months, sources_agree,
                   has_numbers) # CEILING
    /\ FLt(ret, score_claim(Append(sources, sources[1]), data_age_months,
                            sources_agree, has_numbers))

\* The weight x of the table in hundredths.
Hundredths(x) == CHOOSE k \in 0..100 : Lit(k, 100) = x

RECURSIVE SumHundredths(_, _)
SumHundredths(srcs, i) ==
    IF i > Len(srcs) THEN 0
    ELSE Hundredths(_get_credibility(srcs[i])) + SumHundredths(srcs, i + 1)

\* |x - (0.30 + tier + mean * 0.30)| <= 2^-52 for a list of n > 0 sources
\* whose weights add up to total hundredths, in exact arithmetic: both sides
\* are scaled by 10000 * n * 2^FixBits.
NearMeanScore(x, n, total) ==
    BCmp(BAbsDiff(BMulSmall(BMulSmall(Fix(x), 10000), n),
                  BMulSmall(BShl(<<1>>, FixBits),
                            (30 + TierHundredths(n)) * 100 * n + 30 * total)),
         BMulSmall(BMulSmall(BShl(<<1>>, FixBits - 52), 10000), n)) <= 0

\* C16: the credibility bonus is the arithmetic mean of the sources' weights
\* times 0.30 for a list that is not empty, and 0 for the empty list: with
\* data older than 12 months and both flags off the score is
\* 0.30 + tier + mean * 0.30 (up to float rounding), and 0.30 for no sources.
\* ["unknown_blog"] scores 0.30 + 0.03 + 0.20 * 0.30 as floats add it up,
\* which is 0.39 up to rounding, and rates 2 stars.
C16_MeanTimesFactor ==
    (op = "score_claim" /\ ret # None /\ data_age_months > 12
         /\ ~sources_agree /\ ~has_numbers) =>
        /\ sources = <<>> => ret = BASE_CONFIDENCE
        /\ sources # <<>> =>
              NearMeanScore(ret, Len(sources), SumHundredths(sources, 1))
        /\ sources = <<UnknownBlog>> =>
              /\ ret = FAdd(FAdd(Lit(30, 100), Lit(3, 100)),
                            FMul(Lit(20, 100), Lit(30, 100)))
              /\ WithinRounding(ret, FZero, 39)
              /\ stars \in {NoStars, LABEL_2}

\* C16 witness: ["unknown_blog"] with stale data and both flags off has been
\* scored and rated.
C16_Witness ==
    /\ op = "score_claim"
    /\ sources = <<UnknownBlog>>
    /\ data_age_months = 999
    /\ ~sources_agree
    /\ ~has_numbers
    /\ ret # None
    /\ stars = LABEL_2

\* The recency tier of an age, in hundredths.
RecencyHundredths(age) ==
    IF age <= 6 THEN 15 ELSE IF age <= 12 THEN 8 ELSE 0

\* The score of the current inputs with t hundredths as the recency bonus.
ScoreWithRecency(t) ==
    LET before == credibility_bonus(volume_bonus(BASE_CONFIDENCE,
                                                 Len(sources)), sources)
        after  == IF t = 0 THEN before ELSE FAdd(before, Lit(t, 100))
    IN  min_ceiling(numbers_bonus(agree_bonus(after, sources_agree),
                                  has_numbers))

\* C17: the recency bonus is exactly one tier, +0.15 up to 6 months, +0.08
\* up to 12 months, nothing beyond; the call that leaves data_age_months out
\* scores what a call with any age above 12 scores, which is the score with
\* no recency bonus.
C17_RecencyTier ==
    Scored =>
        /\ ret = ScoreWithRecency(RecencyHundredths(data_age_months))
        /\ score_claim_default_age(sources, sources_agree, has_numbers)
               = ScoreWithRecency(0)
        /\ data_age_months > 12 =>
               ret = score_claim_default_age(sources, sources_agree,
                                             has_numbers)

\* C17 witness: a call with data 24 months old and three sources has returned
\* the score of the call without an age, below the scores at 3 and 9 months.
C17_Witness ==
    /\ Scored
    /\ Len(sources) = 3
    /\ data_age_months = 24
    /\ ~sources_agree
    /\ ret = score_claim_default_age(sources, sources_agree, has_numbers)
    /\ FLt(ret, score_claim(sources, 9, sources_agree, has_numbers))
    /\ FLt(score_claim(sources, 9, sources_agree, has_numbers),
           score_claim(sources, 3, sources_agree, has_numbers))

HasDuplicate(srcs) ==
    \E i, j \in 1..Len(srcs) : i < j /\ srcs[i] = srcs[j]

\* C18: a label that is repeated in the list is counted every time it
\* appears: the volume tier is the tier of the list's length and the mean is
\* taken over all entries, so ["Reuters","Reuters"] is scored as a list of
\* two sources (0.30 + 0.08 + 0.90 * 0.30 = 0.65 with stale data and no
\* flags) and not as ["Reuters"].
C18_DuplicatesCount ==
    (Scored /\ HasDuplicate(sources)) =>
        /\ ret = min_ceiling(numbers_bonus(agree_bonus(recency_bonus(
                     add_avg_cred(BaseWithTier(Len(sources)),
                                  [i \in 1..Len(sources) |->
                                      _get_credibility(sources[i])]),
                     data_age_months), sources_agree), has_numbers))
        /\ (data_age_months > 12 /\ ~sources_agree /\ ~has_numbers) =>
              NearMeanScore(ret, Len(sources), SumHundredths(sources, 1))
        /\ (sources = <<Reuters, Reuters>> /\ data_age_months > 12
                /\ ~sources_agree /\ ~has_numbers) =>
              /\ WithinRounding(ret, FZero, 65)
              /\ FLt(score_claim(<<Reuters>>, data_age_months, FALSE, FALSE),
                     ret)

\* C18 witness: ["Reuters","Reuters","some local blog"] with stale data and no
\* flags has been scored with the tier of three sources and the mean of three
\* weights, which is not the score of ["Reuters","some local blog"].
C18_Witness ==
    /\ Scored
    /\ sources = <<Reuters, Reuters, SomeLocalBlog>>
    /\ data_age_months = 999
    /\ ~sources_agree
    /\ ~has_numbers
    /\ NearMeanScore(ret, 3, 90 + 90 + 20)
    /\ ~NearMeanScore(ret, 2, 90 + 20)
    /\ ret # score_claim(<<Reuters, SomeLocalBlog>>, 999, FALSE, FALSE)

\* The positions of the table whose key the lowercased source contains.
MatchingKeys(source) ==
    {i \in 1..Len(SOURCE_CREDIBILITY) :
        contains(lower(source), SOURCE_CREDIBILITY[i].key)}

KeyPosition(k) ==
    CHOOSE i \in 1..Len(SOURCE_CREDIBILITY) : SOURCE_CREDIBILITY[i].key = k

\* C19: a source that contains several keys of the table gets the weight of
\* the matching key that stands first in SOURCE_CREDIBILITY, whatever the
\* order of the names in the source: 0.90 for a source with both 'reuters'
\* and 'sec'; the weight depends on the source string alone.
C19_FirstKeyWins ==
    (op = "_get_credibility" /\ cred # None) =>
        /\ MatchingKeys(arg_source) # {} =>
              \E i \in MatchingKeys(arg_source) :
                  /\ \A j \in MatchingKeys(arg_source) : i <= j
                  /\ cred = SOURCE_CREDIBILITY[i].score
        /\ ({KeyPosition(<<"r", "e", "u", "t", "e", "r", "s">>),
             KeyPosition(<<"s", "e", "c">>)} \subseteq MatchingKeys(arg_source)
            /\ \A j \in MatchingKeys(arg_source) :
                   j >= KeyPosition(<<"r", "e", "u", "t", "e", "r", "s">>)) =>
              cred = Lit(90, 100)
        /\ arg_source = ReutersAndSec => cred = Lit(90, 100)
        /\ cred = _get_credibility(arg_source)

\* C19 witness: a source that names 'sec' before 'reuters' has been given
\* 0.90, the weight of 'reuters', which is not the weight of 'sec'.
C19_Witness ==
    /\ op = "_get_credibility"
    /\ arg_source = <<"S", "e", "c", " ", "a", "n", "d", " ",
                      "R", "E", "U", "T", "E", "R", "S">>
    /\ Cardinality(MatchingKeys(arg_source)) = 2
    /\ cred = Lit(90, 100)
    /\ cred # SOURCE_CREDIBILITY[KeyPosition(<<"s", "e", "c">>)].score

KEY_UNKNOWN == <<"u", "n", "k", "n", "o", "w", "n">>

\* lo/100 <= x <= hi/100
InRange(x, lo, hi) == FGe(x, Lit(lo, 100)) /\ FLe(x, Lit(hi, 100))

\* C20 as stated: a source that contains any key of the table gets a weight
\* in [0.75, 0.95], 0.20 is returned only for a source that contains no key,
\* and every weight lies in [0, 1].
C20_Original ==
    (op = "_get_credibility" /\ cred # None) =>
        /\ MatchingKeys(arg_source) # {} => InRange(cred, 75, 95)
        /\ cred = Lit(20, 100) => MatchingKeys(arg_source) = {}
        /\ InRange(cred, 0, 100)

\* C20 amended: a source that contains a key of the table other than
\* 'unknown' gets a weight in [0.75, 0.95]; 0.20 is returned only for a
\* source that contains no key or no key but 'unknown', which is an entry of
\* the table with the weight 0.20; every weight lies in [0, 1].
C20_ButUnknown ==
    (op = "_get_credibility" /\ cred # None) =>
        /\ MatchingKeys(arg_source) \ {KeyPosition(KEY_UNKNOWN)} # {} =>
              InRange(cred, 75, 95)
        /\ cred = Lit(20, 100) =>
              MatchingKeys(arg_source) \subseteq {KeyPosition(KEY_UNKNOWN)}
        /\ InRange(cred, 0, 100)

\* C20 witness: "UNKNOWN blog", which contains the key 'unknown' and no other,
\* has been given 0.20.
C20_Witness ==
    /\ op = "_get_credibility"
    /\ arg_source = upper(KEY_UNKNOWN) \o <<" ", "b", "l", "o", "g">>
    /\ MatchingKeys(arg_source) = {KeyPosition(KEY_UNKNOWN)}
    /\ cred = Lit(20, 100)

\* ------------------------------------------------------------------------
\* _agentic_call (ddr_engine.py and ddr_engine_v2.py): the request loop
\* ------------------------------------------------------------------------
\* The rounds (responses received) one call is followed for.
MaxRounds == 3

\* for attempt in range(5)
ATTEMPTS == 5

\* if attempt < 4
LAST_RETRY == 4

\* time.sleep(60) after a RateLimitError, time.sleep(30) after a 529
RATE_LIMIT_WAIT == 60
OVERLOADED_WAIT == 30

\* e.status_code == 529
OVERLOADED == 529

\* The status codes an APIStatusError is raised with here: overloaded and
\* internal server error.
StatusCodes == {OVERLOADED, 500}

Engines == {"ddr_engine", "ddr_engine_v2"}

Prompt == "prompt"

\* The content blocks of a response: a text block has the attribute text, a
\* tool_use block has an id.
TextBlock(round, n) == [type |-> "text", text |-> <<round, n>>]

ToolUse(id) == [type |-> "tool_use", id |-> id]

SearchResult == [type |-> "web_search_tool_result"]

Contents(round) ==
    { <<>>,
      <<SearchResult>>,
      <<TextBlock(round, 1)>>,
      <<TextBlock(round, 1), TextBlock(round, 2)>>,
      <<TextBlock(round, 1), ToolUse(1)>>,
      <<ToolUse(1)>>,
      <<ToolUse(1), ToolUse(2)>>,
      <<ToolUse(1), TextBlock(round, 2)>> }

StopReasons == {"end_turn", "tool_use", "max_tokens"}

Responses(round) ==
    [content : Contents(round), stop_reason : StopReasons]

\* The empty string.
NoText == <<>>

IsToolUse(b) == b.type = "tool_use"

\* [b for b in response.content if b.type == "tool_use"]
tool_uses(content) == SelectSeq(content, IsToolUse)

\* The responses after which the loop goes on: the environment gives one of
\* these only while the call is followed for another round.
GoesOn(r) == r.stop_reason # "end_turn" /\ tool_uses(r.content) # <<>>

\* messages = [{"role": "user", "content": prompt}]; final_text = ""
new_call(engine, on_progress) ==
    [engine |-> engine, on_progress |-> on_progress, pc |-> "create",
     round |-> 1, attempt |-> 0, tries |-> 0, slept |-> 0,
     messages |-> <<[role |-> "user", content |-> Prompt]>>,
     request |-> <<>>, final_text |-> NoText, response |-> None,
     response_round |-> 0, reported |-> <<>>, error |-> "none",
     status |-> 0, ret |-> NoText]

InitAgent ==
    /\ py_sum = "naive"
    /\ table = SOURCE_CREDIBILITY
    /\ op = "_agentic_call"
    /\ agent \in {new_call(e, p) : e \in Engines, p \in BOOLEAN}
    /\ stars = NoStars
    /\ NoScoreCall
    /\ NoStarsCall
    /\ NoCredibilityCall
    /\ NoAssembly
    /\ NoThreads
    /\ NoExtract

\* What no step of _agentic_call writes.
AgentLeave ==
    UNCHANGED <<py_sum, table, op, scorer_args, ret, first_ret, calls,
                arg_confidence, stars, stars_engine, arg_source, cred,
                analysis, raised, frames, raw_text>>

\* client.messages.create(..., messages=messages) is called.
create_called(a) ==
    [a EXCEPT !.tries = @ + 1, !.request = a.messages, !.slept = 0,
              !.error = "none", !.status = 0]

\* The call raised error, with status_code status where it has one.
caught(a, error, status) == [a EXCEPT !.error = error, !.status = status]

\* response = client.messages.create(...); break
AgenticCreate ==
    /\ op = "_agentic_call"
    /\ agent.pc = "create"
    /\ \E r \in Responses(agent.round) :
          /\ agent.round = MaxRounds => ~GoesOn(r)
          /\ agent' = [create_called(agent) EXCEPT
                          !.response = r,
                          !.response_round = agent.round,
                          !.pc = "collect"]
    /\ AgentLeave

\* for attempt in range(5): the next attempt; when there is none the loop
\* ends and the statements after it read response, which is unbound in the
\* first round.
for_next(a) ==
    IF a.attempt + 1 < ATTEMPTS THEN [a EXCEPT !.attempt = @ + 1]
    ELSE IF a.response = None
         THEN [a EXCEPT !.pc = "raised", !.error = "UnboundLocalError"]
         ELSE [a EXCEPT !.pc = "collect"]

\* time.sleep(seconds); the for loop takes the next attempt
retry(a, seconds) == for_next([a EXCEPT !.slept = seconds])

\* raise
propagate(a) == [a EXCEPT !.pc = "raised"]

\* except RateLimitError: if attempt < 4: time.sleep(60) else: raise
AgenticRateLimit ==
    /\ op = "_agentic_call"
    /\ agent.pc = "create"
    /\ agent' = IF agent.attempt < LAST_RETRY
                THEN retry(caught(create_called(agent), "RateLimitError", 0),
                           RATE_LIMIT_WAIT)
                ELSE propagate(caught(create_called(agent),
                                      "RateLimitError", 0))
    /\ AgentLeave

\* Mutant of status_retried: every status is retried.
status_retried_any(status_code) == TRUE

\* e.status_code == 529
status_retried(status_code) == status_code = OVERLOADED

\* ddr_engine_v2: except APIStatusError as e:
\*     if e.status_code == 529 and attempt < 4: time.sleep(30) else: raise
\* ddr_engine has no handler for it: the exception leaves the function.
on_status_error(a) ==
    IF a.engine = "ddr_engine_v2" /\ status_retried(a.status)
           /\ a.attempt < LAST_RETRY
    THEN retry(a, OVERLOADED_WAIT)
    ELSE propagate(a)

AgenticStatusError ==
    /\ op = "_agentic_call"
    /\ agent.pc = "create"
    /\ \E code \in StatusCodes :
          agent' = on_status_error(caught(create_called(agent),
                                          "APIStatusError", code))
    /\ AgentLeave

\* for block in response.content: if hasattr(block, "text"): final_text = block.text
RECURSIVE last_text(_, _, _)
last_text(content, i, final_text) ==
    IF i > Len(content) THEN final_text
    ELSE last_text(content, i + 1,
                   IF "text" \in DOMAIN content[i] THEN content[i].text
                   ELSE final_text)

\* if on_progress and tool_calls: on_progress(len(tool_calls))
report(a, tool_calls) ==
    IF a.on_progress /\ tool_calls # <<>>
    THEN Append(a.reported, Len(tool_calls))
    ELSE a.reported

\* Mutant of tool_results: only the first tool call is answered.
tool_results_first(content) ==
    IF tool_uses(content) = <<>> THEN <<>>
    ELSE <<[type |-> "tool_result", tool_use_id |-> tool_uses(content)[1].id,
            content |-> ""]>>

\* [{"type": "tool_result", "tool_use_id": b.id, "content": ""} for b in ...]
tool_results(content) ==
    [i \in 1..Len(tool_uses(content)) |->
        [type |-> "tool_result", tool_use_id |-> tool_uses(content)[i].id,
         content |-> ""]]

\* break; return final_text
return_text(a) == [a EXCEPT !.pc = "returned", !.ret = a.final_text]

\* messages.append(assistant); if tool_results: messages.append(user) else: break
feed_back(a, results) ==
    IF results # <<>>
    THEN [a EXCEPT !.messages =
                       a.messages
                           \o <<[role |-> "assistant",
                                 content |-> a.response.content],
                                [role |-> "user", content |-> results]>>,
                   !.round = @ + 1, !.attempt = 0, !.tries = 0,
                   !.pc = "create"]
    ELSE return_text([a EXCEPT !.messages =
                                  Append(a.messages,
                                         [role |-> "assistant",
                                          content |-> a.response.content])])

\* The statements after the retry loop, up to the next request or the return.
after_retry_loop(a) ==
    IF a.response.stop_reason = "end_turn"
    THEN return_text(a)
    ELSE feed_back(a, tool_results(a.response.content))

AgenticCollect ==
    /\ op = "_agentic_call"
    /\ agent.pc = "collect"
    /\ agent' = after_retry_loop(
                    [agent EXCEPT
                        !.final_text =
                            last_text(agent.response.content, 1, @),
                        !.reported =
                            report(agent, tool_uses(agent.response.content))])
    /\ AgentLeave

NextAgent ==
    \/ AgenticCreate
    \/ AgenticRateLimit
    \/ AgenticStatusError
    \/ AgenticCollect

SpecAgent == InitAgent /\ [][NextAgent]_vars

AgentCalled == op = "_agentic_call"

\* The call waits after the error of its latest attempt and will try again.
Retrying == agent.pc = "create" /\ agent.error # "none"

\* C21: in each round the request is attempted at most 5 times; after a
\* RateLimitError on attempts 1 to 4 the call waits and tries again, on the
\* 5th the error propagates; the code after the retry loop runs only with the
\* response of a successful attempt of the same round. In ddr_engine_v2 a 529
\* is retried on the same budget of 5 attempts and any other status
\* propagates at once.
C21_RetryBudget ==
    AgentCalled =>
        /\ agent.tries <= 5
        /\ agent.error = "RateLimitError" =>
              /\ agent.tries <= 4 => (Retrying /\ agent.slept > 0)
              /\ agent.tries = 5 => agent.pc = "raised"
        /\ Retrying => (agent.tries = agent.attempt /\ agent.tries <= 4)
        /\ agent.pc \in {"collect", "returned"} =>
              /\ agent.error = "none"
              /\ agent.response \in Responses(agent.round)
              /\ agent.response_round = agent.round
              /\ agent.tries \in 1..5
        /\ (agent.engine = "ddr_engine_v2"
                /\ agent.error = "APIStatusError") =>
              /\ (agent.status = 529 /\ agent.tries <= 4) =>
                    (Retrying /\ agent.slept > 0)
              /\ (agent.status = 529 /\ agent.tries = 5) =>
                    agent.pc = "raised"
              /\ agent.status # 529 => agent.pc = "raised"

\* C21 witness: ddr_engine_v2 has got a response on the 5th attempt of the
\* second round, after four errors in that round.
C21_Witness ==
    /\ AgentCalled
    /\ agent.engine = "ddr_engine_v2"
    /\ agent.round = 2
    /\ agent.pc = "collect"
    /\ agent.tries = 5
    /\ agent.attempt = 4

\* The response ends the loop: stop_reason "end_turn", or no tool_use block.
Ends(r) ==
    \/ r.stop_reason = "end_turn"
    \/ \A i \in 1..Len(r.content) : r.content[i].type # "tool_use"

\* The ids of the tool_use blocks of a content, in order.
RECURSIVE ToolUseIds(_)
ToolUseIds(content) ==
    IF content = <<>> THEN <<>>
    ELSE IF Head(content).type = "tool_use"
         THEN <<Head(content).id>> \o ToolUseIds(Tail(content))
         ELSE ToolUseIds(Tail(content))

\* The roles alternate user, assistant, user, ... from the prompt on.
Alternates(messages) ==
    /\ messages # <<>> => messages[1] = [role |-> "user", content |-> Prompt]
    /\ \A i \in 1..Len(messages) :
          messages[i].role = IF i % 2 = 1 THEN "user" ELSE "assistant"

\* C22: _agentic_call returns as soon as a response has stop_reason "end_turn"
\* or no tool_use block, and sends nothing after it has returned; otherwise
\* its next request carries the previous message list extended by the
\* assistant response and one user message with one tool_result per tool_use
\* id; the roles of every request alternate user, assistant, user, ...,
\* starting with the prompt and ending with a user message.
C22_OneMoreRequest ==
    [][AgentCalled =>
          /\ agent.pc \notin {"returned", "raised"}
          /\ agent.pc = "create" => agent'.request = agent.messages
          /\ agent.pc = "collect" =>
                /\ agent'.request = agent.request
                /\ Ends(agent.response) => agent'.pc = "returned"
                /\ ~Ends(agent.response) =>
                      /\ agent'.pc = "create"
                      /\ Len(agent'.messages) = Len(agent.messages) + 2
                      /\ SubSeq(agent'.messages, 1, Len(agent.messages))
                             = agent.messages
                      /\ agent'.messages[Len(agent.messages) + 1]
                             = [role |-> "assistant",
                                content |-> agent.response.content]
                      /\ agent'.messages[Len(agent.messages) + 2].role = "user"
                      /\ LET results ==
                                 agent'.messages[Len(agent.messages) + 2].content
                             ids == ToolUseIds(agent.response.content)
                         IN  /\ Len(results) = Len(ids)
                             /\ \A i \in 1..Len(ids) :
                                    /\ results[i].type = "tool_result"
                                    /\ results[i].tool_use_id = ids[i]
          /\ Alternates(agent'.request)
          /\ Alternates(agent'.messages)
          /\ Len(agent'.request) % 2 = 1
    ]_vars

\* C22 witness: the second request has been sent and answered; it holds the
\* prompt, the first response with its two tool_use blocks and a user message
\* with the two results.
C22_Witness ==
    /\ AgentCalled
    /\ agent.round = 2
    /\ agent.pc = "collect"
    /\ Len(agent.request) = 3
    /\ agent.request[2].content = <<ToolUse(1), ToolUse(2)>>
    /\ Len(agent.request[3].content) = 2
    /\ agent.request[3].content[2].tool_use_id = 2

\* The text of the last text block of a content, the empty string if it has
\* none.
LastTextOf(content) ==
    IF \E i \in 1..Len(content) : "text" \in DOMAIN content[i]
    THEN content[CHOOSE i \in 1..Len(content) :
                     /\ "text" \in DOMAIN content[i]
                     /\ \A j \in (i + 1)..Len(content) :
                            "text" \notin DOMAIN content[j]].text
    ELSE NoText

\* C23: what _agentic_call returns is the last text block of the response
\* that ended the loop, never text of an earlier round.
C23_Original ==
    (AgentCalled /\ agent.pc = "returned") =>
        /\ agent.ret = LastTextOf(agent.response.content)
        /\ agent.ret # NoText => agent.ret[1] = agent.round

\* ------------------------------------------------------------------------
\* ddr_engine.add_confidence_display: the analysis is cleaned and enriched in
\* place; the function may be applied again to what it returned
\* ------------------------------------------------------------------------
\* _STRIP_KEYS
STRIP_KEYS == {"ai_confidence", "ai_confidence_score", "ai_confidence_stars"}

\* Mutant of strip: only ai_confidence is removed.
strip_one(item) == [k \in DOMAIN item \ {"ai_confidence"} |-> item[k]]

\* for k in _STRIP_KEYS: item.pop(k, None)
strip(item) == [k \in DOMAIN item \ STRIP_KEYS |-> item[k]]

\* for item in d.get(section, []): ...
strip_section(d, section) ==
    IF section \in DOMAIN d
    THEN [d EXCEPT ![section] = [i \in 1..Len(@) |-> strip(@[i])]]
    ELSE d

\* comp_landscape = analysis.get('competitive_landscape', {}); the two loops
strip_landscape(d) ==
    IF "competitive_landscape" \in DOMAIN d
    THEN [d EXCEPT !["competitive_landscape"] =
                       strip_section(strip_section(@, "peer_competitors"),
                                     "market_leaders")]
    ELSE d

\* if 'ai_confidence' in rec: rec['ai_confidence_score'] = rec['ai_confidence']
\* rec['ai_confidence_stars'] = get_stars(rec['ai_confidence'])
\* get_stars compares its argument with a float: TypeError for null, after
\* the score was stored.
enrich(rec) ==
    IF "ai_confidence" \notin DOMAIN rec THEN [exc |-> "none", rec |-> rec]
    ELSE IF rec["ai_confidence"].t # "float"
    THEN [exc |-> "TypeError",
          rec |-> dict_set(rec, "ai_confidence_score", rec["ai_confidence"])]
    ELSE [exc |-> "none",
          rec |-> dict_set(
                      dict_set(rec, "ai_confidence_score", rec["ai_confidence"]),
                      "ai_confidence_stars",
                      JStr(ddr_engine_get_stars(rec["ai_confidence"].v)))]

\* The analysis after the record at d[outer][inner] was enriched as r says.
enriched(state, outer, inner, r) ==
    [exc |-> r.exc,
     analysis |-> [state.analysis EXCEPT ![outer][inner] = r.rec]]

\* sub = analysis.get(outer, {}).get(inner, {}); if 'ai_confidence' in sub: ...
enrich_at(state, outer, inner) ==
    IF state.exc # "none" \/ outer \notin DOMAIN state.analysis
           \/ inner \notin DOMAIN state.analysis[outer]
    THEN state
    ELSE enriched(state, outer, inner, enrich(state.analysis[outer][inner]))

add_confidence_display(doc) ==
    enrich_at(
        enrich_at(
            enrich_at(
                [exc |-> "none",
                 analysis |->
                     strip_landscape(
                         strip_section(
                             strip_section(
                                 strip_section(doc, "technology_claims"),
                                 "market_claims"),
                             "unverified_claims"))],
                "company_financial_legal_status", "bankruptcy_insolvency"),
            "outcome_magnitude", "if_all_claims_verified"),
        "outcome_magnitude", "if_core_tech_only_verified")

\* Records as the model's JSON may hold them: with none, some or all of the
\* confidence keys.
ItemPlain == [claim |-> JStr(TEXT)]
ItemConfident == [claim |-> JStr(TEXT), ai_confidence |-> JFloat(Lit(82, 100))]
ItemNullConfidence == [claim |-> JStr(TEXT), ai_confidence |-> JNull]
ItemScored ==
    [claim |-> JStr(TEXT), ai_confidence_score |-> JFloat(Lit(40, 100)),
     ai_confidence_stars |-> JStr(LABEL_2)]
ItemAll ==
    [claim |-> JStr(TEXT), ai_confidence |-> JFloat(Lit(90, 100)),
     ai_confidence_score |-> JFloat(Lit(20, 100)),
     ai_confidence_stars |-> JStr(LABEL_1)]
ItemNested ==
    [claim |-> JStr(TEXT), ai_confidence |-> JFloat(Lit(82, 100)),
     outcome_if_true |-> ItemScored]

ItemLists == {<<>>, <<ItemAll, ItemPlain>>, <<ItemScored>>}

Landscapes ==
    [peer_competitors : {<<>>, <<ItemConfident, ItemScored>>},
     market_leaders : {<<ItemPlain>>, <<ItemAll>>}]
        \cup {[positioning_summary |-> JStr(TEXT)]}

LegalStatuses ==
    [bankruptcy_insolvency :
         {ItemPlain, ItemConfident, ItemNullConfidence, ItemScored},
     recent_funding : {ItemPlain, ItemScored}]
        \cup {[recent_funding |-> ItemPlain]}

Magnitudes ==
    [if_all_claims_verified : {ItemPlain, ItemAll},
     if_core_tech_only_verified : {ItemConfident, ItemNullConfidence, ItemScored}]
        \cup {[if_all_claims_verified |-> ItemConfident]}

DisplayAnalyses ==
    [technology_claims : ItemLists,
     market_claims : {<<>>, <<ItemConfident>>},
     unverified_claims : {<<ItemConfident>>, <<ItemNested, ItemAll>>},
     competitive_landscape : Landscapes,
     company_financial_legal_status : LegalStatuses,
     outcome_magnitude : Magnitudes]
        \cup {[technology_claims |-> <<ItemAll>>],
              [outcome_magnitude |-> [if_all_claims_verified |-> ItemAll]]}

InitDisplay ==
    /\ py_sum = "naive"
    /\ table = SOURCE_CREDIBILITY
    /\ op = "add_confidence_display"
    /\ analysis \in DisplayAnalyses
    /\ raised = "none"
    /\ ret = None
    /\ first_ret = None
    /\ calls = <<>>
    /\ sources = <<>>
    /\ data_age_months = 999
    /\ sources_agree = FALSE
    /\ has_numbers = FALSE
    /\ stars = NoStars
    /\ NoStarsCall
    /\ NoCredibilityCall
    /\ NoThreads
    /\ NoAgent
    /\ NoExtract

\* The call ends as r says: it returns the analysis, or raises.
Displayed(r) ==
    /\ analysis' = r.analysis
    /\ raised' = r.exc
    /\ ret' = IF r.exc = "none" THEN r.analysis ELSE ret

\* analysis = add_confidence_display(analysis)
AddConfidenceDisplay ==
    /\ op = "add_confidence_display"
    /\ raised = "none"
    /\ Len(calls) < MaxCalls
    /\ Displayed(add_confidence_display(analysis))
    /\ calls' = Append(calls, "same")
    /\ UNCHANGED <<py_sum, table, op, scorer_args, first_ret, arg_confidence,
                   stars, stars_engine, arg_source, cred, frames, agent,
                   raw_text>>

NextDisplay == AddConfidenceDisplay

SpecDisplay == InitDisplay /\ [][NextDisplay]_vars

\* add_confidence_display has returned the analysis.
DisplayReturned ==
    op = "add_confidence_display" /\ calls # <<>> /\ raised = "none"

\* The records of the five lists that are cleaned.
ListedRecords(d) ==
    UNION {{d[s][i] : i \in 1..Len(d[s])} :
              s \in DOMAIN d \cap {"technology_claims", "market_claims",
                                   "unverified_claims"}}
        \cup (IF "competitive_landscape" \in DOMAIN d
              THEN UNION {{d["competitive_landscape"][s][i] :
                              i \in 1..Len(d["competitive_landscape"][s])} :
                             s \in DOMAIN d["competitive_landscape"]
                                 \cap {"peer_competitors", "market_leaders"}}
              ELSE {})

\* The three section-level records.
SectionRecords(d) ==
    (IF "company_financial_legal_status" \in DOMAIN d
        /\ "bankruptcy_insolvency"
               \in DOMAIN d["company_financial_legal_status"]
     THEN {d["company_financial_legal_status"]["bankruptcy_insolvency"]}
     ELSE {})
        \cup (IF "outcome_magnitude" \in DOMAIN d
              THEN {d["outcome_magnitude"][k] :
                       k \in DOMAIN d["outcome_magnitude"]
                           \cap {"if_all_claims_verified",
                                 "if_core_tech_only_verified"}}
              ELSE {})

\* C24: after add_confidence_display has returned, no record of
\* technology_claims, market_claims, unverified_claims, peer_competitors or
\* market_leaders holds ai_confidence, ai_confidence_score or
\* ai_confidence_stars; each of bankruptcy_insolvency and the two scenarios
\* that holds ai_confidence holds it as ai_confidence_score and get_stars of
\* it as ai_confidence_stars; and a further application changes nothing.
C24_CleanedAndEnriched ==
    /\ [](DisplayReturned =>
            /\ \A rec \in ListedRecords(analysis) :
                   DOMAIN rec \cap {"ai_confidence", "ai_confidence_score",
                                    "ai_confidence_stars"} = {}
            /\ \A rec \in SectionRecords(analysis) :
                   "ai_confidence" \in DOMAIN rec =>
                       /\ "ai_confidence_score" \in DOMAIN rec
                       /\ rec["ai_confidence_score"] = rec["ai_confidence"]
                       /\ "ai_confidence_stars" \in DOMAIN rec
                       /\ rec["ai_confidence_stars"]
                              = JStr(ddr_engine_get_stars(rec["ai_confidence"].v)))
    /\ [][DisplayReturned => (analysis' = analysis /\ raised' = "none"
                                  /\ ret' = analysis)]_vars

\* C24 witness: the function has been applied twice to an analysis whose
\* lists held the three keys; the lists hold none of them now, and the
\* bankruptcy record carries the score 0.82 with 4 stars.
C24_Witness ==
    /\ DisplayReturned
    /\ Len(calls) = 2
    /\ {"unverified_claims", "competitive_landscape",
        "company_financial_legal_status"} \subseteq DOMAIN analysis
    /\ "peer_competitors" \in DOMAIN analysis["competitive_landscape"]
    /\ "bankruptcy_insolvency"
           \in DOMAIN analysis["company_financial_legal_status"]
    /\ Len(analysis["technology_claims"]) = 2
    /\ analysis["unverified_claims"][1] = [claim |-> JStr(TEXT),
                                           outcome_if_true |-> ItemScored]
    /\ analysis["competitive_landscape"]["peer_competitors"]
           = <<ItemPlain, ItemPlain>>
    /\ analysis["company_financial_legal_status"]["bankruptcy_insolvency"]
           = [claim |-> JStr(TEXT), ai_confidence |-> JFloat(Lit(82, 100)),
              ai_confidence_score |-> JFloat(Lit(82, 100)),
              ai_confidence_stars |-> JStr(LABEL_4)]

\* The records of the analysis besides the three section-level ones: those of
\* the five lists, the records nested in them and the other records of
\* company_financial_legal_status.
OtherRecords(d) ==
    ListedRecords(d)
        \cup {rec["outcome_if_true"] :
                 rec \in {r \in ListedRecords(d) :
                             "outcome_if_true" \in DOMAIN r}}
        \cup (IF "company_financial_legal_status" \in DOMAIN d
              THEN {d["company_financial_legal_status"][k] :
                       k \in DOMAIN d["company_financial_legal_status"]
                           \ {"bankruptcy_insolvency"}}
              ELSE {})

\* C25: after add_confidence_display has returned, whatever analysis the
\* model produced, no record but bankruptcy_insolvency and the two scenarios
\* of outcome_magnitude carries ai_confidence_score or ai_confidence_stars.
C25_Original ==
    DisplayReturned =>
        \A rec \in OtherRecords(analysis) :
            DOMAIN rec \cap {"ai_confidence_score", "ai_confidence_stars"} = {}

\* ------------------------------------------------------------------------
\* _extract_json (ddr_engine.py and ddr_engine_v2.py)
\*
\* A text is a sequence of tokens: the punctuation of JSON, "1" for a number,
\* "s" for a string literal with its quotes, " " and "\n" for white space,
\* "p" for a lower-case letter of prose, "F" for a fence of three backquotes,
\* "c" for a control character other than \n, \r and \t, and "u" for a
\* character outside ASCII (a no-break space, say), both outside any string.
\* ------------------------------------------------------------------------
WHITESPACE == {" ", "\n"}

\* raw_text[:2000]
RAW_LIMIT == 2000

\* The nesting depth at which json.loads gives up with RecursionError: the
\* interpreter's recursion limit (1000 by default), scaled down.
RecursionLimit == 3

\* The first position from i on that holds no white space.
skip_ws(s, i) ==
    CHOOSE j \in i..(Len(s) + 1) :
        /\ j = Len(s) + 1 \/ s[j] \notin WHITESPACE
        /\ \A k \in i..(j - 1) : s[k] \in WHITESPACE

\* The scanner of json.loads. Each operator gives the position after what it
\* has read, 0 for JSONDecodeError, -1 for RecursionError.
RECURSIVE scan_once(_, _, _)
RECURSIVE scan_member(_, _, _)
RECURSIVE scan_member_value(_, _, _)
RECURSIVE after_member(_, _, _)
RECURSIVE scan_item(_, _, _)
RECURSIVE after_item(_, _, _)

scan_once(s, i, depth) ==
    IF depth > RecursionLimit THEN -1
    ELSE IF i > Len(s) THEN 0
    ELSE IF s[i] \in {"1", "s"} THEN i + 1
    ELSE IF s[i] = "{"
    THEN IF skip_ws(s, i + 1) <= Len(s) /\ s[skip_ws(s, i + 1)] = "}"
         THEN skip_ws(s, i + 1) + 1
         ELSE scan_member(s, skip_ws(s, i + 1), depth)
    ELSE IF s[i] = "["
    THEN IF skip_ws(s, i + 1) <= Len(s) /\ s[skip_ws(s, i + 1)] = "]"
         THEN skip_ws(s, i + 1) + 1
         ELSE scan_item(s, skip_ws(s, i + 1), depth)
    ELSE 0

\* "key" : value
scan_member(s, i, depth) ==
    IF i > Len(s) \/ s[i] # "s" THEN 0
    ELSE scan_member_value(s, skip_ws(s, i + 1), depth)

scan_member_value(s, i, depth) ==
    IF i > Len(s) \/ s[i] # ":" THEN 0
    ELSE after_member(s, scan_once(s, skip_ws(s, i + 1), depth + 1), depth)

\* , "key" : value   or   }
after_member(s, r, depth) ==
    IF r <= 0 THEN r
    ELSE IF skip_ws(s, r) > Len(s) THEN 0
    ELSE IF s[skip_ws(s, r)] = "," 
    THEN scan_member(s, skip_ws(s, skip_ws(s, r) + 1), depth)
    ELSE IF s[skip_ws(s, r)] = "}" THEN skip_ws(s, r) + 1
    ELSE 0

scan_item(s, i, depth) ==
    after_item(s, scan_once(s, i, depth + 1), depth)

\* , value   or   ]
after_item(s, r, depth) ==
    IF r <= 0 THEN r
    ELSE IF skip_ws(s, r) > Len(s) THEN 0
    ELSE IF s[skip_ws(s, r)] = ","
    THEN scan_item(s, skip_ws(s, skip_ws(s, r) + 1), depth)
    ELSE IF s[skip_ws(s, r)] = "]" THEN skip_ws(s, r) + 1
    ELSE 0

NotWhitespace(c) == c \notin WHITESPACE

\* The Python value of a text that was read: a dict for an object, a list for
\* an array, an int or a str; what it holds is the text less its white space.
py_value(s) ==
    [t |-> CASE s[skip_ws(s, 1)] = "{" -> "dict"
             [] s[skip_ws(s, 1)] = "[" -> "list"
             [] s[skip_ws(s, 1)] = "1" -> "int"
             [] OTHER -> "str",
     v |-> SelectSeq(s, NotWhitespace)]

\* json.loads(s) with r what the scanner gave for the first value: nothing
\* but white space may follow it.
loads_end(s, r) ==
    IF r = -1 THEN [exc |-> "RecursionError", value |-> None]
    ELSE IF r = 0 \/ skip_ws(s, r) <= Len(s)
    THEN [exc |-> "JSONDecodeError", value |-> None]
    ELSE [exc |-> "none", value |-> py_value(s)]

\* json.loads(s)
loads(s) == loads_end(s, scan_once(s, skip_ws(s, 1), 1))

\* s.count(c)
count(s, c) == Cardinality({i \in 1..Len(s) : s[i] = c})

max(a, b) == IF a >= b THEN a ELSE b

\* raw_text.strip()
strip_text(s) ==
    IF \A i \in 1..Len(s) : s[i] \in WHITESPACE THEN <<>>
    ELSE SubSeq(s, skip_ws(s, 1),
                CHOOSE j \in 1..Len(s) :
                    /\ s[j] \notin WHITESPACE
                    /\ \A k \in (j + 1)..Len(s) : s[k] \in WHITESPACE)

\* The first position from i on that holds no token of the set.
skip_all(s, i, set) ==
    CHOOSE j \in i..(Len(s) + 1) :
        /\ j = Len(s) + 1 \/ s[j] \notin set
        /\ \A k \in i..(j - 1) : s[k] \in set

\* The position after one optional "\n" at i.
skip_newline(s, i) == IF i <= Len(s) /\ s[i] = "\n" THEN i + 1 ELSE i

\* ddr_engine: re.sub(r"^```[a-z]*\n?", "", raw)
drop_opening_fence(s) ==
    IF s # <<>> /\ s[1] = "F"
    THEN SubSeq(s, skip_newline(s, skip_all(s, 2, {"p"})), Len(s))
    ELSE s

\* ddr_engine: re.sub(r"\n?```$", "", raw)
drop_closing_fence(s) ==
    IF s # <<>> /\ s[Len(s)] = "F"
    THEN SubSeq(s, 1, IF Len(s) > 1 /\ s[Len(s) - 1] = "\n"
                       THEN Len(s) - 2 ELSE Len(s) - 1)
    ELSE s

\* ddr_engine_v2: re.sub(r"```[a-z]*\s*\n?", "", raw), from position i on
RECURSIVE drop_fences_from(_, _)
drop_fences_from(s, i) ==
    IF i > Len(s) THEN <<>>
    ELSE IF s[i] = "F"
    THEN drop_fences_from(s, skip_all(s, skip_all(s, i + 1, {"p"}),
                                      WHITESPACE))
    ELSE <<s[i]>> \o drop_fences_from(s, i + 1)

\* A text without a fence is left as it is. The second substitution,
\* re.sub(r"\n?\s*```", "", raw), finds no fence after the first.
drop_fences(s) ==
    IF \A i \in 1..Len(s) : s[i] # "F" THEN s ELSE drop_fences_from(s, 1)

\* re.search(r'\{[\s\S]*\}', raw): the span from the first "{" to the last
\* "}" after it; the empty text when there is none.
HasSpan(s) == \E i, j \in 1..Len(s) : i < j /\ s[i] = "{" /\ s[j] = "}"

json_match(s) ==
    SubSeq(s,
           CHOOSE i \in 1..Len(s) :
               s[i] = "{" /\ \A k \in 1..(i - 1) : s[k] # "{",
           CHOOSE j \in 1..Len(s) :
               s[j] = "}" /\ \A k \in (j + 1)..Len(s) : s[k] # "}")

NotControl(c) == c # "c"

\* ddr_engine_v2 _clean: re.sub(r'[\x00-\x08\x0b\x0c\x0e-\x1f]', '', s)
_clean(s) == SelectSeq(s, NotControl)

IsAscii(c) == c # "u"

\* fragment.encode("ascii", errors="ignore").decode("ascii")
ascii_only(s) == SelectSeq(s, IsAscii)

\* fragment + ("]" * max(open_a, 0)) + ("}" * max(open_b, 0))
patched(s) ==
    s \o [i \in 1..max(count(s, "[") - count(s, "]"), 0) |-> "]"]
      \o [i \in 1..max(count(s, "{") - count(s, "}"), 0) |-> "}"]

\* ddr_engine_v2, attempt 5: the position after the "}" that closes the first
\* "{", 0 when there is none.
RECURSIVE end_idx(_, _, _)
end_idx(s, i, depth) ==
    IF i > Len(s) THEN 0
    ELSE IF s[i] = "{" THEN end_idx(s, i + 1, depth + 1)
    ELSE IF s[i] = "}"
    THEN IF depth - 1 = 0 THEN i ELSE end_idx(s, i + 1, depth - 1)
    ELSE end_idx(s, i + 1, depth)

NO_JSON == [company_name |-> "Unknown", error |-> "No JSON found in response"]

parse_failed(text) ==
    [company_name |-> "Unknown", error |-> "JSON parse failed",
     raw |-> SubSeq(text, 1, IF Len(text) < RAW_LIMIT THEN Len(text)
                              ELSE RAW_LIMIT)]

\* try: return json.loads(...) except json.JSONDecodeError: pass
\* with r the outcome of the attempt and rest that of the statements after
\* it: a value is returned, a JSONDecodeError passes on to the rest, any
\* other exception leaves the function.
try(r, rest) ==
    IF r.exc = "JSONDecodeError" THEN rest ELSE r

returns(value) == [exc |-> "none", value |-> value]

\* Mutant of attempts: the patched fragment is never tried.
attempts_unpatched(fragment, text) ==
    try(loads(fragment),
        try(loads(ascii_only(fragment)),
            returns(parse_failed(text))))

\* ddr_engine: attempts 1 to 3 and the error dict
attempts(fragment, text) ==
    try(loads(fragment),
        try(loads(patched(fragment)),
            try(loads(ascii_only(fragment)),
                returns(parse_failed(text)))))

\* ddr_engine_v2, attempt 5: if end_idx > 0: return json.loads(...)
smaller_object(fragment, e, rest) ==
    IF e > 0 THEN try(loads(_clean(SubSeq(fragment, 1, e))), rest) ELSE rest

\* ddr_engine_v2: attempts 1 to 5 and the error dict
attempts_v2(fragment, text) ==
    try(loads(fragment),
        try(loads(_clean(fragment)),
            try(loads(patched(_clean(fragment))),
                try(loads(ascii_only(fragment)),
                    smaller_object(fragment, end_idx(fragment, 1, 0),
                                   returns(parse_failed(text)))))))

\* The function from the search of the span on, raw being the text without
\* its fences.
extract_from(engine, raw, text) ==
    IF ~HasSpan(raw) THEN returns(NO_JSON)
    ELSE IF engine = "ddr_engine" THEN attempts(json_match(raw), text)
    ELSE attempts_v2(json_match(raw), text)

_extract_json(engine, text) ==
    extract_from(engine,
                 IF engine = "ddr_engine"
                 THEN drop_closing_fence(drop_opening_fence(strip_text(text)))
                 ELSE drop_fences(strip_text(text)),
                 text)

\* Texts as the model's answer may be: every text of up to MaxText tokens of
\* an object, and texts with fences, prose, stray characters, missing
\* brackets, deep nesting and more than 2000 characters.
MaxText == 4

ShortTexts == SeqsUpTo({"{", "}", "s", ":", "1"}, MaxText)

Answer == <<"{", "s", ":", "1", "}">>

Nested(n) ==
    [i \in 1..(3 * n) |-> <<"{", "s", ":">>[((i - 1) % 3) + 1]]
        \o <<"1">> \o [i \in 1..n |-> "}"]

LongProse == [i \in 1..(RAW_LIMIT + 1) |-> "p"]

LongTexts ==
    { <<"F", "p", "p", "\n">> \o Answer \o <<"\n", "F">>,
      <<" ", "\n">> \o Answer \o <<"\n">>,
      <<"p", "p", " ">> \o Answer \o <<" ", "p">>,
      <<"p", " ", "F", "p", "\n">> \o Answer \o <<"\n", "F", " ", "p">>,
      <<"{", "s", ":", "{", "s", ":", "1", "}">>,
      <<"{", "s", ":", "[", "1", ",", "1", "}">>,
      <<"{", "s", ":", "[", "1", ",", "{", "s", ":", "1", "}">>,
      <<"{", "s", ":", "u", "1", "}">>,
      <<"{", "s", ":", "c", "1", "}">>,
      <<"{", "s", ":", "c", "{", "s", ":", "u", "1", "}">>,
      Answer \o <<" ", "p", "p", " ", "{", "p", "}">>,
      <<"{", "s", ":", "[", "]", ",", " ", "s", ":", "{", "}", "}">>,
      <<"{", "s", " ", "1", "}">>,
      <<"[", "1", ",", "1", "]">>,
      <<"p", "p", "p">>,
      <<>>,
      Nested(2),
      Nested(RecursionLimit),
      Nested(RecursionLimit + 2),
      <<"{", "s", ":", "u">> \o Nested(RecursionLimit + 2) \o <<"}">>,
      LongProse \o <<"{", "p", "}">>,
      LongProse \o Answer }

ExtractInputs ==
    [engine : Engines, text : ShortTexts \cup LongTexts]

InitExtract ==
    /\ py_sum = "naive"
    /\ table = SOURCE_CREDIBILITY
    /\ op = "_extract_json"
    /\ raw_text \in ExtractInputs
    /\ ret = None
    /\ raised = "none"
    /\ analysis = None
    /\ first_ret = None
    /\ calls = <<>>
    /\ sources = <<>>
    /\ data_age_months = 999
    /\ sources_agree = FALSE
    /\ has_numbers = FALSE
    /\ stars = NoStars
    /\ NoStarsCall
    /\ NoCredibilityCall
    /\ NoThreads
    /\ NoAgent

\* The call ends as r says: it returns a value, or raises.
Extracted(r) ==
    /\ raised' = r.exc
    /\ ret' = IF r.exc = "none" THEN r.value ELSE ret

\* _extract_json(raw_text)
ExtractJson ==
    /\ op = "_extract_json"
    /\ ret = None
    /\ raised = "none"
    /\ Extracted(_extract_json(raw_text.engine, raw_text.text))
    /\ UNCHANGED <<py_sum, table, op, scorer_args, first_ret, calls,
                   arg_confidence, stars, stars_engine, arg_source, cred,
                   analysis, frames, agent, raw_text>>

NextExtract == ExtractJson

SpecExtract == InitExtract /\ [][NextExtract]_vars

\* The value is a Python dict: a parsed object or one of the error dicts.
IsDict(value) ==
    \/ "error" \in DOMAIN value
    \/ "t" \in DOMAIN value /\ value.t = "dict"

\* C26: _extract_json never raises and always returns a dict; for a text
\* with no {...} span the dict is the error dict "No JSON found in response",
\* and the error dict "JSON parse failed" holds in raw at most the first 2000
\* characters of the input.
C26_Original ==
    op = "_extract_json" =>
        /\ raised = "none"
        /\ ret # None =>
              /\ IsDict(ret)
              /\ ~HasSpan(raw_text.text) => ret = NO_JSON
              /\ "raw" \in DOMAIN ret =>
                    /\ Len(ret.raw) <= 2000
                    /\ ret.raw = SubSeq(raw_text.text, 1, Len(ret.raw))

\* C27: score_claim never returns a value below 0.30, so get_stars applied to
\* a score_claim result never yields the 1-star label: only the labels of 2
\* to 5 stars are reached on scorer output.
C27_NeverOneStar ==
    (op = "score_claim" /\ ret # None) =>
        /\ FGe(ret, Lit(30, 100))
        /\ stars # NoStars =>
              stars \in {LABEL_2, LABEL_3, LABEL_4, LABEL_5}

\* C27 witness: a call with no bonus at all has returned the baseline 0.30
\* and get_stars has rated it two stars.
C27_Witness ==
    /\ op = "score_claim"
    /\ sources = <<>>
    /\ data_age_months > 12
    /\ ~sources_agree
    /\ ~has_numbers
    /\ ret = Lit(30, 100)
    /\ stars = LABEL_2

\* The sources a call's list is extended by: two of the highest weights of
\* the table and one no key matches.
MoreSources == MixedPool

\* The score of the call's list with s appended, the other arguments kept.
ScoreWithOneMore(s) ==
    score_claim(Append(sources, s), data_age_months, sources_agree,
                has_numbers)

\* The sum of the weights of srcs from position i on, in exact arithmetic
\* (scaled by 2^FixBits).
RECURSIVE SumOfWeights(_, _)
SumOfWeights(srcs, i) ==
    IF i > Len(srcs) THEN <<>>
    ELSE BAdd(Fix(_get_credibility(srcs[i])), SumOfWeights(srcs, i + 1))

\* The weight of s is not below the mean weight of the list srcs (any weight
\* is, for an empty list), in exact arithmetic.
NotBelowMean(s, srcs) ==
    BCmp(BMulSmall(Fix(_get_credibility(s)), Len(srcs)),
         SumOfWeights(srcs, 1)) >= 0

\* a >= b - 2^-52, in exact arithmetic.
NotLowerUpToRounding(a, b) ==
    BCmp(BAdd(Fix(a), BShl(<<1>>, FixBits - 52)), Fix(b)) >= 0

\* C28 as stated: appending one more source of any credibility to the source
\* list, with data_age_months, sources_agree and has_numbers unchanged, never
\* lowers the score score_claim returns.
C28_Original ==
    Scored => \A s \in MoreSources : FGe(ScoreWithOneMore(s), ret)

\* C28 amended: appending one more source whose credibility weight is not
\* below the mean weight of the sources already listed, with the other inputs
\* unchanged, never lowers the score by more than a float rounding step
\* (2^-52).
C28_NotBelowMean ==
    Scored =>
        \A s \in MoreSources :
            NotBelowMean(s, sources) =>
                NotLowerUpToRounding(ScoreWithOneMore(s), ret)

\* C28 witness: a call with one source of a low weight has returned, a source
\* of a higher weight appended to it scores strictly higher, and the same
\* source appended to a list of a still higher weight would not be covered.
C28_Witness ==
    /\ Scored
    /\ sources = <<SomeLocalBlog>>
    /\ NotBelowMean(Reuters, sources)
    /\ ~NotBelowMean(SomeLocalBlog, <<Reuters>>)
    /\ FLt(ret, ScoreWithOneMore(Reuters))

\* The records of the section of the analysis d that carry a score.
ScoredRecords(d, section) ==
    IF section \notin DOMAIN d THEN {}
    ELSE {d[section][i] : i \in {j \in 1..Len(d[section]) :
                                    "ai_confidence_score" \in DOMAIN d[section][j]}}

\* The bankruptcy_insolvency record of d, if it carries a score.
ScoredBankruptcy(d) ==
    {claim \in ClaimRecords([company_financial_legal_status |->
                                dict_get(d, "company_financial_legal_status",
                                         [other |-> JNull])]) :
        "ai_confidence_score" \in DOMAIN claim}

\* The record carries the score, and its stars, of
\* score_claim(srcs, data_age_months=999, sources_agree=False,
\* has_numbers=numbers), with srcs its own sources, [] if it has none, or []
\* whatever it holds.
ComputedWith(claim, own_sources, numbers) ==
    LET srcs == IF own_sources /\ "sources" \in DOMAIN claim
                THEN claim["sources"].v ELSE <<>>
        conf == score_claim(srcs, 999, FALSE, numbers)
    IN  /\ claim["ai_confidence_score"] = JFloat(conf)
        /\ claim["ai_confidence_stars"] = JStr(get_stars(conf))

\* Every score attached is computed with the fixed arguments of its section.
FixedArguments(d) ==
    /\ \A claim \in ScoredRecords(d, "technology_claims") :
          ComputedWith(claim, TRUE, FALSE)
    /\ \A claim \in ScoredRecords(d, "market_claims") :
          ComputedWith(claim, TRUE, TRUE)
    /\ \A claim \in ScoredRecords(d, "unverified_claims") :
          /\ ComputedWith(claim, FALSE, FALSE)
          /\ claim["ai_confidence_score"] = JFloat(Lit(30, 100))
          /\ claim["ai_confidence_stars"] = JStr(LABEL_2)
    /\ \A claim \in ScoredBankruptcy(d) : ComputedWith(claim, TRUE, TRUE)
    /\ \A claim \in ScoredRecords(d, "technology_claims") :
          claim["ai_confidence_stars"] # JStr(LABEL_5)
    /\ \A claim \in ScoredRecords(d, "technology_claims")
                       \cup ScoredRecords(d, "market_claims")
                       \cup ScoredRecords(d, "unverified_claims")
                       \cup ScoredBankruptcy(d) :
          FLe(claim["ai_confidence_score"].v, Lit(935, 1000))

Rearranged(srcs) ==
    IF \A i \in 1..Len(srcs) : srcs[i] = srcs[1] THEN {srcs}
    ELSE {[i \in 1..Len(srcs) |-> srcs[f[i]]] :
             f \in Permutations(1..Len(srcs))}

\* The score of the list p with the other arguments of the call.
ScoreOfOrder(p) ==
    score_claim(p, data_age_months, sources_agree, has_numbers)

====
